---- MODULE Spec2Model ----
(***************************************************************************)
(* A model of the PCX decoder of 44mira/image-processor:                   *)
(*   src/pcx_rle.py     decompress_pcx_rle, read_and_decompress_pcx_data   *)
(*   src/pcx_header.py  PCXHeader (construction, validate, parsing)        *)
(*                                                                         *)
(* Bytes are the integers 0..255, a bytes object is a sequence of them.    *)
(* A Python index k is the TLA+ index k + 1.                               *)
(***************************************************************************)
EXTENDS Integers, Sequences, FiniteSets, TLC

VARIABLES
    \* ---- decompress_pcx_rle (src/pcx_rle.py:13-73)
    compressed_data,   \* argument: the compressed bytes
    rle_args,          \* arguments: [bytes_per_line, num_planes, height]
    i,                 \* the read position (Python index)
    decompressed,      \* the output bytearray
    rle_pc,            \* "idle" | "loop" | "returned" | "raised"
    rle_result,        \* what the call returned or raised
    \* ---- PCXHeader.parse_pcx_header (src/pcx_header.py:219-287)
    file,              \* the bytes of the file at file_path
    header_bytes,      \* what f.read(128) gave
    header,            \* the PCXHeader object built by cls(*fields)
    validation,        \* what header.validate() returned
    parse_pc,          \* "idle" | "start" | "returned" | "raised"
    parse_result,      \* what parse_pcx_header returned or raised
    \* ---- read_and_decompress_pcx_data (src/pcx_rle.py:76-109)
    read_header,       \* argument: the header object handed in
    read_pc,           \* "idle" | "start" | "returned" | "raised"
    read_result,       \* what the call returned or raised
    \* ---- the file system
    file_exists,       \* whether open(file_path, "rb") succeeds
    \* ---- read_256_color_palette (imported from pcx_header)
    palette_pc,        \* "idle" | "start" | "returned" | "raised"
    palette_result,    \* what the call returned or raised
    \* ---- pcx_to_qimage, _create_8bit_qimage (src/utils/pcx.py:14-86)
    qimage_pc,         \* "idle" | "reading" | "palette" | "filling"
                       \*   | "returned" | "raised"
    color_table,       \* the image's colour table (image.setColorTable)
    image,             \* the QImage being filled: width, height, pixels
    qimage_result,     \* what pcx_to_qimage returned or raised
    \* ---- ImageViewer.open_pcx_file (src/main.py:350-383)
    viewer_pc,         \* "idle" | "parsing" | "converting" | "done"
    image_label,       \* what image_label.setImage was last given
    window_title,      \* what setWindowTitle was last given
    dialog,            \* the message of the last QMessageBox.critical
    opens,             \* how many files were opened so far
    seen,              \* history: the files parsed so far and the results
    \* ---- point operators and spatial filters
    filter_op,         \* the function applied
    in_shape,          \* the shape of the array handed in
    filter_pc,         \* "idle" | "start" | "returned" | "raised"
    out_shape,         \* the shape of the array returned
    \* ---- ImageViewer.open_image (src/main.py:307-348)
    file_path,         \* the characters of the path the file dialog gave
    \* ---- the methods and functions that are handed a PCXHeader
    use_result,        \* the last one called on the header and its result
    \* ---- RightDockPanel (src/main.py:29-135)
    stack,             \* the widgets of self.stack, in the order added
    buttons,           \* self.buttons: for each, the index its click
                       \*   handler holds, its tooltip, whether it is checked
    current_index,     \* self.current_index
    last_click,        \* history: what the last click did
    sidebar_layout,    \* the items of self.sidebar_layout, top to bottom
    stack_visible,     \* self.stack.isVisible()
    stack_index,       \* self.stack.currentIndex()
    collapsing         \* the collapse animations that have not finished

rle_vars   == <<compressed_data, rle_args, i, decompressed, rle_pc, rle_result>>
parse_vars == <<header_bytes, header, validation, parse_pc, parse_result>>
read_vars  == <<read_header, read_pc, read_result>>
palette_vars == <<palette_pc, palette_result>>
image_vars == <<qimage_pc, color_table, image, qimage_result>>
viewer_vars == <<viewer_pc, image_label, window_title, dialog, opens, seen>>
filter_vars == <<filter_op, in_shape, filter_pc, out_shape>>
path_vars == <<file_path>>
use_vars == <<use_result>>
dock_vars == <<stack, buttons, current_index, last_click, sidebar_layout,
               stack_visible, stack_index, collapsing>>
vars       == <<rle_vars, file, file_exists, parse_vars, read_vars, palette_vars,
               image_vars, viewer_vars, filter_vars, path_vars, use_vars,
               dock_vars>>

(***************************************************************************)
(* Bounds of the model.                                                    *)
(***************************************************************************)
MaxLen == 3             \* longest compressed input of the general family
MaxBytesPerLine == 3    \* largest bytes_per_line of the general family
MaxPlanes == 2          \* largest num_planes of the general family
MaxHeight == 2          \* largest height of the general family

(***************************************************************************)
(* Helpers: bytes and sequences.                                           *)
(***************************************************************************)
Byte == 0..255

\* Python's a & b on non-negative integers, bit by bit.
RECURSIVE BitAnd(_, _)
BitAnd(a, b) ==
    IF a = 0 \/ b = 0 THEN 0
    ELSE (a % 2) * (b % 2) + 2 * BitAnd(a \div 2, b \div 2)

\* [value] * n
Repeat(value, n) == [k \in 1..n |-> value]

\* s[:n] for n >= 0
Take(s, n) == SubSeq(s, 1, IF n < Len(s) THEN n ELSE Len(s))

\* s[n:] for n >= 0
Drop(s, n) == SubSeq(s, n + 1, Len(s))

\* All sequences over S of length 0..n
SeqsUpTo(S, n) == UNION {[1..k -> S] : k \in 0..n}

(***************************************************************************)
(* decompress_pcx_rle                                                      *)
(***************************************************************************)
RunMarkerMask == 192    \* 0xC0
RunCountMask == 63      \* 0x3F

NoResult == [kind |-> "none", data |-> <<>>, msg |-> "", got |-> 0, expected |-> 0]

Returned(data) ==
    [kind |-> "return", data |-> data, msg |-> "", got |-> 0, expected |-> 0]

\* raise InvalidPCXError(msg); got/expected are the numbers formatted into msg
Raised(msg, got, expected) ==
    [kind |-> "InvalidPCXError", data |-> <<>>, msg |-> msg,
     got |-> got, expected |-> expected]

\* Mutant of TotalBytesNeeded: the planes are left out.
TotalBytesNeededOnePlane(bytes_per_line, planes, h) == bytes_per_line * h

TotalBytesNeeded(bytes_per_line, planes, h) == bytes_per_line * planes * h

\* Mutant of IsRunMarker: only the top bit is tested.
IsRunMarkerTopBit(byte) == BitAnd(byte, 128) = 128

IsRunMarker(byte) == BitAnd(byte, RunMarkerMask) = RunMarkerMask

\* Mutant of RunCount: a five-bit count (mask 0x1F).
RunCountFiveBits(byte) == BitAnd(byte, 31)

\* Mutant of RunCount: a count of 0 is taken for a run of one.
RunCountAtLeastOne(byte) ==
    IF BitAnd(byte, 63) = 0 THEN 1 ELSE BitAnd(byte, 63)

RunCount(byte) == BitAnd(byte, RunCountMask)

\* Mutant of LoopCond: the loop runs to the end of the input.
LoopCondWholeInput(c, idx, d, total) == idx < Len(c)

\* while len(decompressed) < total_bytes_needed and i < len(compressed_data)
LoopCond(c, idx, d, total) == Len(d) < total /\ idx < Len(c)

\* if i >= len(compressed_data): raise ... (after the marker byte was read)
MissingValue(c, idx) == idx >= Len(c)

\* Mutant of LoopBody: a marker with count 0 is not consumed.
LoopBodyStuckOnZeroRun(c, idx, d) ==
    LET byte == c[idx + 1]
        i1   == idx + 1
    IN  IF BitAnd(byte, 192) = 192
        THEN IF i1 >= Len(c)
             THEN [i |-> i1, decompressed |-> d, raised |-> TRUE]
             ELSE IF BitAnd(byte, 63) = 0
                  THEN [i |-> idx, decompressed |-> d, raised |-> FALSE]
                  ELSE [i |-> i1 + 1,
                        decompressed |-> d \o Repeat(c[i1 + 1], BitAnd(byte, 63)),
                        raised |-> FALSE]
        ELSE [i |-> i1, decompressed |-> Append(d, byte), raised |-> FALSE]

\* One iteration of the loop body from read position idx with output d:
\* the new position, the new output and whether the iteration raised.
LoopBody(c, idx, d) ==
    LET byte == c[idx + 1]
        i1   == idx + 1
    IN  IF IsRunMarker(byte)
        THEN IF MissingValue(c, i1)
             THEN [i |-> i1, decompressed |-> d, raised |-> TRUE]
             ELSE [i |-> i1 + 1,
                   decompressed |-> d \o Repeat(c[i1 + 1], RunCount(byte)),
                   raised |-> FALSE]
        ELSE [i |-> i1, decompressed |-> Append(d, byte), raised |-> FALSE]

\* Mutant of MissingValueError: the wrong message.
MissingValueErrorAsIncomplete ==
    Raised("Incomplete RLE data: got {got} bytes, expected {expected}", 0, 0)

MissingValueError ==
    Raised("Unexpected end of RLE data (missing value byte)", 0, 0)

\* Mutant of IsIncomplete: off by one.
IsIncompleteOffByOne(d, total) == Len(d) < total - 1

\* if len(decompressed) < total_bytes_needed: raise ...
IsIncomplete(d, total) == Len(d) < total

\* Mutant of Trim: the excess is not cut off.
TrimNothing(d, total) == d

\* return bytes(decompressed[:total_bytes_needed])
Trim(d, total) == Take(d, total)

\* The code after the loop.
AfterLoop(d, total) ==
    IF IsIncomplete(d, total)
    THEN Raised("Incomplete RLE data: got {got} bytes, expected {expected}",
                Len(d), total)
    ELSE Returned(Trim(d, total))

\* The whole call, as a function of its arguments.
RECURSIVE RleRun(_, _, _, _)
RleRun(c, idx, d, total) ==
    IF LoopCond(c, idx, d, total)
    THEN LET s == LoopBody(c, idx, d)
         IN  IF s.raised THEN MissingValueError
             ELSE RleRun(c, s.i, s.decompressed, total)
    ELSE AfterLoop(d, total)

decompress_pcx_rle(c, bytes_per_line, planes, h) ==
    RleRun(c, 0, <<>>, TotalBytesNeeded(bytes_per_line, planes, h))

\* ---- the inputs of the model
\* Literals (0x05, 0x7F, 0xBF) and run markers (0xC0, 0xC2, 0xFF).
RleBytes == {5, 127, 191, 192, 194, 255}

\* Value bytes that follow the first byte in the one-marker family.
UnitValues == {0, 170}

\* General family: short inputs over RleBytes, small dimensions.
RleInitGeneral ==
    /\ compressed_data \in SeqsUpTo(RleBytes, MaxLen)
    /\ rle_args \in [bytes_per_line : 0..MaxBytesPerLine,
                     num_planes : 1..MaxPlanes,
                     height : 0..MaxHeight]

\* One-marker family: every first byte 0x00..0xFF alone or followed by one
\* value byte, against every total from 0 to one more than the longest run
\* (as the tests call it: num_planes = 1, height = 1).
RleInitUnit ==
    /\ compressed_data \in
          {<<b>> : b \in Byte} \cup {<<b, v>> : b \in Byte, v \in UnitValues}
    /\ rle_args \in [bytes_per_line : 0..(RunCountMask + 1),
                     num_planes : {1},
                     height : {1}]

RleIdle ==
    /\ compressed_data = <<>>
    /\ rle_args = [bytes_per_line |-> 0, num_planes |-> 0, height |-> 0]
    /\ i = 0
    /\ decompressed = <<>>
    /\ rle_pc = "idle"
    /\ rle_result = NoResult

total_bytes_needed ==
    TotalBytesNeeded(rle_args.bytes_per_line, rle_args.num_planes, rle_args.height)

\* ---- the call, one loop iteration per step
RleRunStep ==
    /\ rle_pc = "loop"
    /\ LoopCond(compressed_data, i, decompressed, total_bytes_needed)
    /\ IsRunMarker(compressed_data[i + 1])
    /\ LET s == LoopBody(compressed_data, i, decompressed)
       IN  /\ ~s.raised
           /\ i' = s.i
           /\ decompressed' = s.decompressed
    /\ UNCHANGED <<compressed_data, rle_args, rle_pc, rle_result>>
    /\ UNCHANGED <<file, file_exists, parse_vars, read_vars, palette_vars, image_vars, viewer_vars, filter_vars, path_vars, use_vars, dock_vars>>

RleLiteralStep ==
    /\ rle_pc = "loop"
    /\ LoopCond(compressed_data, i, decompressed, total_bytes_needed)
    /\ ~IsRunMarker(compressed_data[i + 1])
    /\ LET s == LoopBody(compressed_data, i, decompressed)
       IN  /\ i' = s.i
           /\ decompressed' = s.decompressed
    /\ UNCHANGED <<compressed_data, rle_args, rle_pc, rle_result>>
    /\ UNCHANGED <<file, file_exists, parse_vars, read_vars, palette_vars, image_vars, viewer_vars, filter_vars, path_vars, use_vars, dock_vars>>

RleMissingValue ==
    /\ rle_pc = "loop"
    /\ LoopCond(compressed_data, i, decompressed, total_bytes_needed)
    /\ LET s == LoopBody(compressed_data, i, decompressed)
       IN  /\ s.raised
           /\ i' = s.i
           /\ decompressed' = s.decompressed
    /\ rle_pc' = "raised"
    /\ rle_result' = MissingValueError
    /\ UNCHANGED <<compressed_data, rle_args>>
    /\ UNCHANGED <<file, file_exists, parse_vars, read_vars, palette_vars, image_vars, viewer_vars, filter_vars, path_vars, use_vars, dock_vars>>

RleIncomplete ==
    /\ rle_pc = "loop"
    /\ ~LoopCond(compressed_data, i, decompressed, total_bytes_needed)
    /\ IsIncomplete(decompressed, total_bytes_needed)
    /\ rle_pc' = "raised"
    /\ rle_result' = AfterLoop(decompressed, total_bytes_needed)
    /\ UNCHANGED <<compressed_data, rle_args, i, decompressed>>
    /\ UNCHANGED <<file, file_exists, parse_vars, read_vars, palette_vars, image_vars, viewer_vars, filter_vars, path_vars, use_vars, dock_vars>>

RleReturn ==
    /\ rle_pc = "loop"
    /\ ~LoopCond(compressed_data, i, decompressed, total_bytes_needed)
    /\ ~IsIncomplete(decompressed, total_bytes_needed)
    /\ rle_pc' = "returned"
    /\ rle_result' = AfterLoop(decompressed, total_bytes_needed)
    /\ UNCHANGED <<compressed_data, rle_args, i, decompressed>>
    /\ UNCHANGED <<file, file_exists, parse_vars, read_vars, palette_vars, image_vars, viewer_vars, filter_vars, path_vars, use_vars, dock_vars>>

RleNext ==
    \/ RleRunStep
    \/ RleLiteralStep
    \/ RleMissingValue
    \/ RleIncomplete
    \/ RleReturn

(***************************************************************************)
(* PCXHeader: the 128-byte layout "<BBBBHHHHHH48sBBHHHH54s"                *)
(***************************************************************************)
HeaderSize == 128

\* struct "B" at byte offset off
U8(b, off) == b[off + 1]

\* Mutant of U16: struct "<h", signed.
S16(b, off) ==
    IF b[off + 2] >= 128
    THEN b[off + 1] + 256 * b[off + 2] - 65536
    ELSE b[off + 1] + 256 * b[off + 2]

\* struct "<H" at byte offset off: unsigned, little-endian
U16(b, off) == b[off + 1] + 256 * b[off + 2]

\* struct.unpack("<BBBBHHHHHH48sBBHHHH54s", header_bytes)
Unpack(hb) ==
    [manufacturer   |-> U8(hb, 0),
     version        |-> U8(hb, 1),
     encoding       |-> U8(hb, 2),
     bits_per_pixel |-> U8(hb, 3),
     xmin           |-> U16(hb, 4),
     ymin           |-> U16(hb, 6),
     xmax           |-> U16(hb, 8),
     ymax           |-> U16(hb, 10),
     hdpi           |-> U16(hb, 12),
     vdpi           |-> U16(hb, 14),
     colormap       |-> SubSeq(hb, 17, 64),
     reserved       |-> U8(hb, 64),
     num_planes     |-> U8(hb, 65),
     bytes_per_line |-> U16(hb, 66),
     palette_type   |-> U16(hb, 68),
     hscreen_size   |-> U16(hb, 70),
     vscreen_size   |-> U16(hb, 72),
     filler         |-> SubSeq(hb, 75, 128)]

\* struct.pack "<H"
P16(n) == <<n % 256, (n \div 256) % 256>>

\* struct.pack("<BBBBHHHHHH48sBBHHHH54s", ...) as the tests build a header
Pack(f) ==
    <<f.manufacturer, f.version, f.encoding, f.bits_per_pixel>>
    \o P16(f.xmin) \o P16(f.ymin) \o P16(f.xmax) \o P16(f.ymax)
    \o P16(f.hdpi) \o P16(f.vdpi)
    \o f.colormap
    \o <<f.reserved, f.num_planes>>
    \o P16(f.bytes_per_line) \o P16(f.palette_type)
    \o P16(f.hscreen_size) \o P16(f.vscreen_size)
    \o f.filler

\* Mutant of Width: the inclusive bound is forgotten.
WidthExclusive(f) == f.xmax - f.xmin

\* self.width = self.xmax - self.xmin + 1
Width(f) == f.xmax - f.xmin + 1

\* self.height = self.ymax - self.ymin + 1
Height(f) == f.ymax - f.ymin + 1

\* Mutant of ColorMode: the planes are left out of the product.
ColorModeOfBitsPerPixel(f) ==
    LET total_bits == f.bits_per_pixel
    IN  CASE total_bits = 1  -> <<"1-bit Monochrome">>
          [] total_bits = 2  -> <<"2-bit (4 colors)">>
          [] total_bits = 4  -> <<"4-bit (16 colors)">>
          [] total_bits = 8  -> <<"8-bit (256 colors)">>
          [] total_bits = 24 -> <<"24-bit True Color (RGB)">>
          [] OTHER           -> <<"Unknown ({total_bits}-bit)", total_bits>>

\* _determine_color_mode: the text, and for the unknown mode the number in it
ColorMode(f) ==
    LET total_bits == f.bits_per_pixel * f.num_planes
    IN  CASE total_bits = 1  -> <<"1-bit Monochrome">>
          [] total_bits = 2  -> <<"2-bit (4 colors)">>
          [] total_bits = 4  -> <<"4-bit (16 colors)">>
          [] total_bits = 8  -> <<"8-bit (256 colors)">>
          [] total_bits = 24 -> <<"24-bit True Color (RGB)">>
          [] OTHER           -> <<"Unknown ({total_bits}-bit)", total_bits>>

FieldNames ==
    {"manufacturer", "version", "encoding", "bits_per_pixel", "xmin", "ymin",
     "xmax", "ymax", "hdpi", "vdpi", "colormap", "reserved", "num_planes",
     "bytes_per_line", "palette_type", "hscreen_size", "vscreen_size", "filler"}

\* cls(*fields): the dataclass __init__ followed by __post_init__
PCXHeader(f) ==
    [n \in FieldNames \cup {"width", "height", "color_mode"} |->
        CASE n = "width"      -> Width(f)
          [] n = "height"     -> Height(f)
          [] n = "color_mode" -> ColorMode(f)
          [] OTHER            -> f[n]]

(***************************************************************************)
(* PCXHeader.validate: a message is <<template, numbers formatted in>>     *)
(***************************************************************************)
Manufacturer == 10      \* 0x0A

\* if cond: errors.append(msg)
AppendIf(cond, msg) == IF cond THEN <<msg>> ELSE <<>>

CheckManufacturer(h) ==
    AppendIf(h.manufacturer # Manufacturer,
             <<"Invalid manufacturer byte: 0x{manufacturer:02X} (expected 0x0A)",
               h.manufacturer>>)

CheckEncoding(h) ==
    AppendIf(h.encoding \notin {0, 1},
             <<"Unsupported encoding: {encoding} (only 0=uncompressed and 1=RLE are supported)",
               h.encoding>>)

CheckVersion(h) ==
    AppendIf(h.version \notin {0, 2, 3, 4, 5},
             <<"Unknown version: {version}", h.version>>)

CheckBitsPerPixel(h) ==
    AppendIf(h.bits_per_pixel \notin {1, 2, 4, 8},
             <<"Invalid bits per pixel: {bits_per_pixel}", h.bits_per_pixel>>)

CheckX(h) ==
    AppendIf(h.xmax < h.xmin,
             <<"Invalid X dimensions: xmax ({xmax}) < xmin ({xmin})",
               h.xmax, h.xmin>>)

CheckY(h) ==
    AppendIf(h.ymax < h.ymin,
             <<"Invalid Y dimensions: ymax ({ymax}) < ymin ({ymin})",
               h.ymax, h.ymin>>)

CheckSize(h) ==
    AppendIf(h.width <= 0 \/ h.height <= 0,
             <<"Invalid image size: {width}x{height}", h.width, h.height>>)

CheckBytesPerLineEven(h) ==
    AppendIf(h.bytes_per_line % 2 # 0,
             <<"Bytes per line must be even: {bytes_per_line}", h.bytes_per_line>>)

\* (self.width * self.bits_per_pixel + 7) // 8
MinBytesPerLine(h) == (h.width * h.bits_per_pixel + 7) \div 8

CheckBytesPerLineWidth(h) ==
    AppendIf(h.bytes_per_line < MinBytesPerLine(h),
             <<"Bytes per line ({bytes_per_line}) too small for image width ({width})",
               h.bytes_per_line, h.width>>)

CheckNumPlanes(h) ==
    AppendIf(h.num_planes \notin {1, 3, 4},
             <<"Unusual number of planes: {num_planes}", h.num_planes>>)

\* the list errors at the return statement
ValidationErrors(h) ==
    CheckManufacturer(h) \o CheckEncoding(h) \o CheckVersion(h)
    \o CheckBitsPerPixel(h) \o CheckX(h) \o CheckY(h) \o CheckSize(h)
    \o CheckBytesPerLineEven(h) \o CheckBytesPerLineWidth(h)
    \o CheckNumPlanes(h)

\* Mutant of Validate: the list stops at the first violation.
ValidateFirstOnly(h) ==
    LET errors == Take(ValidationErrors(h), 1)
    IN  [is_valid |-> Len(errors) = 0, errors |-> errors]

\* return (len(errors) == 0, errors)
Validate(h) ==
    LET errors == ValidationErrors(h)
    IN  [is_valid |-> Len(errors) = 0, errors |-> errors]

(***************************************************************************)
(* PCXHeader.parse_pcx_header                                              *)
(***************************************************************************)
NoHeader == [none |-> TRUE]
NoValidation == [is_valid |-> FALSE, errors |-> <<>>, none |-> TRUE]
NoParse == [kind |-> "none", header |-> NoHeader, msg |-> <<>>, lines |-> <<>>]

\* f.read(128)
ReadHeaderBytes(f) == Take(f, HeaderSize)

\* _validate_header_length: if len(header_bytes) < 128
HeaderTooShort(hb) == Len(hb) < HeaderSize

\* Mutant of TooSmallError: the message counts the missing bytes.
TooSmallErrorMissingCount(hb) ==
    [kind |-> "InvalidPCXError", header |-> NoHeader,
     msg |-> <<"File too small: only {len(header_bytes)} bytes (need 128 for header)",
               HeaderSize - Len(hb)>>,
     lines |-> <<>>]

TooSmallError(hb) ==
    [kind |-> "InvalidPCXError", header |-> NoHeader,
     msg |-> <<"File too small: only {len(header_bytes)} bytes (need 128 for header)",
               Len(hb)>>,
     lines |-> <<>>]

\* "Invalid PCX header:\n" + "\n".join(f"  - {e}" for e in errors)
InvalidHeaderError(errors) ==
    [kind |-> "InvalidPCXError", header |-> NoHeader,
     msg |-> <<"Invalid PCX header:">>, lines |-> errors]

\* Mutant of ParseOutcome: an unusual plane count alone is only a warning.
ParseOutcomeLenient(h, v) ==
    IF \E k \in 1..Len(v.errors) :
          v.errors[k][1] # "Unusual number of planes: {num_planes}"
    THEN InvalidHeaderError(v.errors)
    ELSE [kind |-> "return", header |-> h, msg |-> <<>>, lines |-> <<>>]

\* Mutant of ParseOutcome: the header that was returned last is kept and
\* handed out again.
ParseOutcomeCached(h, v) ==
    IF parse_result.kind = "return"
    THEN parse_result
    ELSE IF ~v.is_valid
         THEN InvalidHeaderError(v.errors)
         ELSE [kind |-> "return", header |-> h, msg |-> <<>>, lines |-> <<>>]

\* if not is_valid: raise InvalidPCXError(error_msg); return header
ParseOutcome(h, v) ==
    IF ~v.is_valid
    THEN InvalidHeaderError(v.errors)
    ELSE [kind |-> "return", header |-> h, msg |-> <<>>, lines |-> <<>>]

ParseIdle ==
    /\ header_bytes = <<>>
    /\ header = NoHeader
    /\ validation = NoValidation
    /\ parse_pc = "idle"
    /\ parse_result = NoParse

ParseTooSmall ==
    /\ parse_pc = "start"
    /\ file_exists
    /\ header_bytes' = ReadHeaderBytes(file)
    /\ HeaderTooShort(header_bytes')
    /\ parse_pc' = "raised"
    /\ parse_result' = TooSmallError(header_bytes')
    /\ UNCHANGED <<header, validation>>
    /\ UNCHANGED <<file, file_exists, rle_vars, read_vars, palette_vars, image_vars, viewer_vars, filter_vars, path_vars, use_vars, dock_vars>>

ParseInvalid ==
    /\ parse_pc = "start"
    /\ file_exists
    /\ header_bytes' = ReadHeaderBytes(file)
    /\ ~HeaderTooShort(header_bytes')
    /\ header' = PCXHeader(Unpack(header_bytes'))
    /\ validation' = Validate(header')
    /\ parse_result' = ParseOutcome(header', validation')
    /\ parse_result'.kind = "InvalidPCXError"
    /\ parse_pc' = "raised"
    /\ UNCHANGED <<file, file_exists, rle_vars, read_vars, palette_vars, image_vars, viewer_vars, filter_vars, path_vars, use_vars, dock_vars>>

ParseReturn ==
    /\ parse_pc = "start"
    /\ file_exists
    /\ header_bytes' = ReadHeaderBytes(file)
    /\ ~HeaderTooShort(header_bytes')
    /\ header' = PCXHeader(Unpack(header_bytes'))
    /\ validation' = Validate(header')
    /\ parse_result' = ParseOutcome(header', validation')
    /\ parse_result'.kind = "return"
    /\ parse_pc' = "returned"
    /\ UNCHANGED <<file, file_exists, rle_vars, read_vars, palette_vars, image_vars, viewer_vars, filter_vars, path_vars, use_vars, dock_vars>>

\* open(file_path, "rb") in read_pcx_header_raw fails; the call stands
\* before the try of parse_pcx_header, so the error leaves as it is
OpenFailedError ==
    [kind |-> "FileNotFoundError", header |-> NoHeader,
     msg |-> <<"[Errno 2] No such file or directory: {file_path}">>,
     lines |-> <<>>]

ParseOpenFails ==
    /\ parse_pc = "start"
    /\ ~file_exists
    /\ parse_pc' = "raised"
    /\ parse_result' = OpenFailedError
    /\ UNCHANGED <<header_bytes, header, validation>>
    /\ UNCHANGED <<file, file_exists, rle_vars, read_vars, palette_vars, image_vars, viewer_vars, filter_vars, path_vars, use_vars, dock_vars>>

ParseNext ==
    \/ ParseTooSmall
    \/ ParseInvalid
    \/ ParseReturn

(***************************************************************************)
(* read_and_decompress_pcx_data                                            *)
(***************************************************************************)
\* f.seek(128); image_data = f.read()
ImageData(f) == Drop(f, HeaderSize)

\* Mutant of IsRleEncoded: every file is taken for RLE data.
IsRleEncodedAlways(h) == TRUE

\* if header.encoding == 1
IsRleEncoded(h) == h.encoding = 1

read_and_decompress_pcx_data(f, h) ==
    IF IsRleEncoded(h)
    THEN decompress_pcx_rle(ImageData(f), h.bytes_per_line, h.num_planes, h.height)
    ELSE Returned(ImageData(f))

ReadIdle ==
    /\ read_header = NoHeader
    /\ read_pc = "idle"
    /\ read_result = NoResult

ReadReturn ==
    /\ read_pc = "start"
    /\ read_result' = read_and_decompress_pcx_data(file, read_header)
    /\ read_result'.kind = "return"
    /\ read_pc' = "returned"
    /\ UNCHANGED read_header
    /\ UNCHANGED <<file, file_exists, rle_vars, parse_vars, palette_vars, image_vars, viewer_vars, filter_vars, path_vars, use_vars, dock_vars>>

ReadRaise ==
    /\ read_pc = "start"
    /\ read_result' = read_and_decompress_pcx_data(file, read_header)
    /\ read_result'.kind = "InvalidPCXError"
    /\ read_pc' = "raised"
    /\ UNCHANGED read_header
    /\ UNCHANGED <<file, file_exists, rle_vars, parse_vars, palette_vars, image_vars, viewer_vars, filter_vars, path_vars, use_vars, dock_vars>>

ReadNext ==
    \/ ReadReturn
    \/ ReadRaise

(***************************************************************************)
(* read_256_color_palette: imported from pcx_header by utils/pcx.py and by *)
(* the tests; modelled from section 4.3 of the design and from the tests.  *)
(***************************************************************************)
PaletteMarker == 12     \* 0x0C
PaletteSize == 768      \* 256 RGB triplets
PaletteBlockSize == 769 \* the marker and the triplets

PaletteReturned(data) == [kind |-> "return", data |-> data, msg |-> ""]

PaletteRaised(msg) == [kind |-> "InvalidPCXError", data |-> <<>>, msg |-> msg]

\* Mutant of PaletteTooSmall: the header is left out of the minimum.
PaletteTooSmallWithoutHeader(f) == Len(f) < PaletteBlockSize

\* file_length < 128 + 769
PaletteTooSmall(f) == Len(f) < HeaderSize + PaletteBlockSize

\* the byte at offset file_length - 769
PaletteMarkerByte(f) == f[Len(f) - PaletteBlockSize + 1]

\* Mutant of PaletteBytes: the block is read from the marker on.
PaletteBytesFromMarker(f) ==
    SubSeq(f, Len(f) - PaletteBlockSize + 1, Len(f) - 1)

\* the 768 bytes that follow the marker
PaletteBytes(f) == SubSeq(f, Len(f) - PaletteSize + 1, Len(f))

read_256_color_palette(f) ==
    IF PaletteTooSmall(f)
    THEN PaletteRaised("File too small for 256-color palette")
    ELSE IF PaletteMarkerByte(f) # PaletteMarker
         THEN PaletteRaised("Missing or invalid 256-color palette marker")
         ELSE PaletteReturned(PaletteBytes(f))

PaletteReturn ==
    /\ palette_pc = "start"
    /\ palette_result' = read_256_color_palette(file)
    /\ palette_result'.kind = "return"
    /\ palette_pc' = "returned"
    /\ UNCHANGED <<file, file_exists, rle_vars, parse_vars, read_vars,
                   image_vars, viewer_vars, filter_vars, path_vars, use_vars, dock_vars>>

PaletteRaise ==
    /\ palette_pc = "start"
    /\ palette_result' = read_256_color_palette(file)
    /\ palette_result'.kind = "InvalidPCXError"
    /\ palette_pc' = "raised"
    /\ UNCHANGED <<file, file_exists, rle_vars, parse_vars, read_vars,
                   image_vars, viewer_vars, filter_vars, path_vars, use_vars, dock_vars>>

PaletteNext ==
    \/ PaletteReturn
    \/ PaletteRaise

(***************************************************************************)
(* The files and headers of the model.                                     *)
(***************************************************************************)
MaxCoord == 1           \* largest small value of xmin and xmax

\* create_test_pcx_header's defaults, with a 1x1 image
DefaultFields ==
    [manufacturer   |-> 10,
     version        |-> 5,
     encoding       |-> 1,
     bits_per_pixel |-> 8,
     xmin           |-> 0,
     ymin           |-> 0,
     xmax           |-> 0,
     ymax           |-> 0,
     hdpi           |-> 300,
     vdpi           |-> 300,
     colormap       |-> Repeat(0, 48),
     reserved       |-> 0,
     num_planes     |-> 1,
     bytes_per_line |-> 2,
     palette_type   |-> 1,
     hscreen_size   |-> 0,
     vscreen_size   |-> 0,
     filler         |-> Repeat(0, 54)]

\* Bounds with the top bit clear, and 0xFFFF.
XCoords == 0..MaxCoord \cup {65535}
YCoords == {0, 1}

\* Headers whose every rule holds or fails, in every combination.
HeaderFields ==
    {[DefaultFields EXCEPT !.manufacturer = m, !.version = v, !.encoding = e,
                           !.bits_per_pixel = bpp, !.xmin = x0, !.xmax = x1,
                           !.ymin = y0, !.ymax = y1, !.num_planes = np,
                           !.bytes_per_line = bpl] :
        m \in {10, 255}, v \in {5, 1}, e \in {0, 1, 2}, bpp \in {1, 8, 3},
        x0 \in XCoords, x1 \in XCoords, y0 \in YCoords, y1 \in YCoords,
        np \in {1, 3, 2}, bpl \in 0..MaxBytesPerLine}

\* Headers whose files are cut short: valid, one violation, many violations.
SeedFields ==
    {[DefaultFields EXCEPT !.manufacturer = m, !.encoding = e, !.xmin = x0,
                           !.bytes_per_line = bpl] :
        m \in {10, 255}, e \in {1, 2}, x0 \in {0, 1}, bpl \in {2, 1}}

\* Bytes that follow the header in a file that is cut short.
SeedTail == <<12, 7>>

\* Headers of every colour depth: bits_per_pixel x num_planes, with the
\* products 1, 2, 4, 8 and 24 reached in more than one way.
ColorModeFields ==
    {[DefaultFields EXCEPT !.bits_per_pixel = bpp, !.num_planes = np] :
        bpp \in {0, 1, 2, 3, 4, 8, 16, 24}, np \in {1, 2, 3, 4}}

HeaderFiles ==
    {Pack(f) : f \in HeaderFields \cup ColorModeFields}
    \cup {Take(Pack(f) \o SeedTail, n) :
             f \in SeedFields, n \in 0..(HeaderSize + Len(SeedTail))}

\* The header objects handed to read_and_decompress_pcx_data, built as the
\* tests build them.
ReadHeaders ==
    {PCXHeader([DefaultFields EXCEPT !.encoding = e, !.ymax = y1,
                                     !.num_planes = np, !.bytes_per_line = bpl]) :
        e \in {0, 1, 2}, y1 \in 0..(MaxHeight - 1), np \in 1..MaxPlanes,
        bpl \in 0..MaxBytesPerLine}

\* Files with image data after the header, and files that end before it.
ReadFiles ==
    {Pack(DefaultFields) \o body : body \in SeqsUpTo(RleBytes, MaxLen)}
    \cup {Take(Pack(DefaultFields), n) : n \in {0, 1, HeaderSize - 1}}

\* A palette block as the tests write it: the grey ramp (i, i, i).
GrayPalette == [k \in 1..768 |-> (k - 1) \div 3]

\* A palette whose triplets differ in every channel: (i, 255 - i, 12).
ColorPalette ==
    [k \in 1..768 |->
        CASE (k - 1) % 3 = 0 -> (k - 1) \div 3
          [] (k - 1) % 3 = 1 -> 255 - ((k - 1) \div 3)
          [] OTHER           -> 12]

\* b"\x00" * n, with byte v at offset at when that offset is in the file
ZerosWith(n, at, v) == [k \in 1..n |-> IF k = at + 1 THEN v ELSE 0]

\* Files for read_256_color_palette: every length below 128 + 769, all
\* zeros or with 0x0C where the marker would be; and whole files whose
\* marker byte is right or wrong.
PaletteFiles ==
    {ZerosWith(n, n - 769, v) : n \in 0..896, v \in {0, 12}}
    \cup {Pack(DefaultFields) \o Repeat(0, k) \o <<m>> \o pal :
             k \in 0..MaxLen, m \in {12, 0, 13, 255},
             pal \in {GrayPalette, ColorPalette}}

\* Valid headers of the supported and of the unsupported layouts, raw and
\* RLE, one or two pixels wide in a row of two bytes.
ViewerFields ==
    {[DefaultFields EXCEPT !.encoding = e, !.bits_per_pixel = d[1],
                           !.num_planes = d[2], !.xmax = x1, !.ymax = y1,
                           !.bytes_per_line = 2] :
        e \in {0, 1}, d \in {<<8, 1>>, <<8, 3>>, <<1, 1>>, <<4, 1>>, <<1, 4>>},
        x1 \in {0, 1}, y1 \in 0..(MaxHeight - 1)}

\* n literal bytes, all different
Literals(n) == [k \in 1..n |-> 10 + k]

\* Image data: none, too little, a run cut off, literals and runs that fill
\* the rows of one plane.
ViewerBodies ==
    {<<>>, <<194>>, <<7, 195, 9>>, Literals(2), Literals(2 * MaxHeight),
     <<192 + 2 * MaxHeight, 5>>}

\* What follows the image data: nothing, a palette block, a block whose
\* marker byte is wrong.
ViewerTails ==
    {<<>>, <<PaletteMarker>> \o ColorPalette, <<0>> \o ColorPalette}

ViewerFiles ==
    {Pack(f) \o body \o tail :
        f \in ViewerFields, body \in ViewerBodies, tail \in ViewerTails}
    \cup {Pack([DefaultFields EXCEPT !.manufacturer = 255, !.version = 1]),
          Take(Pack(DefaultFields), HeaderSize - 1)}

\* The files of a session: one for each way open_pcx_file can go.
SessionFiles ==
    {Take(Pack(DefaultFields), HeaderSize - 1),
     Pack([DefaultFields EXCEPT !.manufacturer = 255]),
     Pack([DefaultFields EXCEPT !.encoding = 1, !.bits_per_pixel = 8,
                                !.xmax = 0, !.bytes_per_line = 2])
        \o <<194, 5>> \o <<PaletteMarker>> \o ColorPalette,
     Pack([DefaultFields EXCEPT !.encoding = 1, !.bits_per_pixel = 8,
                                !.xmax = 1, !.bytes_per_line = 2])
        \o <<7, 9>>,
     Pack([DefaultFields EXCEPT !.encoding = 1, !.bits_per_pixel = 8,
                                !.xmax = 1, !.bytes_per_line = 2])
        \o <<7>>,
     Pack([DefaultFields EXCEPT !.encoding = 0, !.bits_per_pixel = 8,
                                !.xmax = 1, !.bytes_per_line = 2])
        \o <<7>>,
     Pack([DefaultFields EXCEPT !.encoding = 1, !.bits_per_pixel = 8,
                                !.num_planes = 3, !.xmax = 0,
                                !.bytes_per_line = 2])
        \o <<198, 5>>}

(***************************************************************************)
(* The components that a specification leaves alone.                       *)
(***************************************************************************)
NoImage == [none |-> TRUE]
NoPalette == [kind |-> "none", data |-> <<>>, msg |-> ""]
NoQImage == [kind |-> "none", image |-> NoImage, msg |-> <<>>]

PaletteIdle ==
    /\ palette_pc = "idle"
    /\ palette_result = NoPalette

ImageIdle ==
    /\ qimage_pc = "idle"
    /\ color_table = <<>>
    /\ image = NoImage
    /\ qimage_result = NoQImage

ViewerIdle ==
    /\ viewer_pc = "idle"
    /\ image_label = NoImage
    /\ window_title = "Simple Image Viewer"
    /\ dialog = <<>>
    /\ opens = 0
    /\ seen = <<>>

FilterIdle ==
    /\ filter_op = "none"
    /\ in_shape = <<>>
    /\ filter_pc = "idle"
    /\ out_shape = <<>>

\* self.current_index = None
NoIndex == -1

\* QStackedWidget().currentIndex() while the stack holds no widget
EmptyStackIndex == -1

NoUse == [method |-> "none", result |-> <<>>]

PathIdle == file_path = <<>>

UseIdle == use_result = NoUse

\* RightDockPanel.__init__: self.buttons = []; self.current_index = None
DockIdle ==
    /\ stack = <<>>
    /\ buttons = <<>>
    /\ current_index = NoIndex
    /\ last_click = "none"
    /\ sidebar_layout = <<[item |-> "stretch"]>>
    /\ stack_visible = FALSE
    /\ stack_index = EmptyStackIndex
    /\ collapsing = 0

(***************************************************************************)
(* pcx_to_qimage and _create_8bit_qimage (src/utils/pcx.py)                *)
(***************************************************************************)
\* A pixel of a QImage that was constructed and not yet written.
Uninitialized == -1

\* QColor(r, g, b).rgb(): 0xAARRGGBB with alpha 0xFF, kept as its four bytes
Rgb(r, g, b) == <<255, r, g, b>>

\* QImage(header.width, header.height, QImage.Format.Format_Indexed8)
QImage(w, h) ==
    [width |-> w, height |-> h, color_table |-> <<>>,
     pixels |-> [y \in 0..(h - 1) |-> [x \in 0..(w - 1) |-> Uninitialized]]]

\* for i in range(256): r, g, b = palette_data[i*3], [i*3 + 1], [i*3 + 2]
PaletteColorTable(palette_data) ==
    [k \in 1..256 |-> Rgb(palette_data[(k - 1) * 3 + 1],
                          palette_data[(k - 1) * 3 + 2],
                          palette_data[(k - 1) * 3 + 3])]

\* [QColor(i, i, i).rgb() for i in range(256)]
GrayColorTable == [k \in 1..256 |-> Rgb(k - 1, k - 1, k - 1)]

\* if header.bits_per_pixel == 8 and header.num_planes == 1
IsSupportedFormat(h) == h.bits_per_pixel = 8 /\ h.num_planes = 1

UnsupportedFormatError(h) ==
    [kind |-> "ValueError", image |-> NoImage,
     msg |-> <<"Unsupported PCX format: {header.color_mode}. Currently only 8-bit indexed color is supported.",
               h.color_mode>>]

\* Mutant of LineOffset: the rows are taken to be width bytes apart.
LineOffsetPacked(y, h) == y * h.width

\* line_offset = y * header.bytes_per_line
LineOffset(y, h) == y * h.bytes_per_line

\* line_data = pixel_data[line_offset : line_offset + header.width]
LineData(pixel_data, y, h) ==
    Take(Drop(pixel_data, IF LineOffset(y, h) < Len(pixel_data)
                          THEN LineOffset(y, h) ELSE Len(pixel_data)),
         h.width)

\* line_data[x] raises IndexError for some (x, y) of the loops
FillIndexError(pixel_data, h) ==
    \E y \in 0..(h.height - 1) : Len(LineData(pixel_data, y, h)) < h.width

\* for y ...: for x ...: image.setPixel(x, y, line_data[x])
FilledPixels(pixel_data, h) ==
    [y \in 0..(h.height - 1) |->
        [x \in 0..(h.width - 1) |-> LineData(pixel_data, y, h)[x + 1]]]

\* Mutant of QImageReadFailed: the error is swallowed and an empty image of
\* the header's size is returned.
QImageReadFailedBlank ==
    /\ qimage_pc = "reading"
    /\ read_pc = "raised"
    /\ qimage_pc' = "returned"
    /\ image' = QImage(read_header.width, read_header.height)
    /\ qimage_result' = [kind |-> "return", image |-> image', msg |-> <<>>]
    /\ UNCHANGED color_table
    /\ UNCHANGED <<file, file_exists, rle_vars, parse_vars, read_vars,
                   palette_vars, viewer_vars, filter_vars, path_vars, use_vars, dock_vars>>

\* pixel_data = read_and_decompress_pcx_data(...) raised: the error leaves
\* pcx_to_qimage as it is
QImageReadFailed ==
    /\ qimage_pc = "reading"
    /\ read_pc = "raised"
    /\ qimage_pc' = "raised"
    /\ qimage_result' = [kind |-> read_result.kind, image |-> NoImage,
                         msg |-> <<read_result.msg, read_result.got,
                                   read_result.expected>>]
    /\ UNCHANGED <<color_table, image>>
    /\ UNCHANGED <<file, file_exists, rle_vars, parse_vars, read_vars,
                   palette_vars, viewer_vars, filter_vars, path_vars, use_vars, dock_vars>>

\* else: raise ValueError(...)
QImageUnsupported ==
    /\ qimage_pc = "reading"
    /\ read_pc = "returned"
    /\ ~IsSupportedFormat(read_header)
    /\ qimage_pc' = "raised"
    /\ qimage_result' = UnsupportedFormatError(read_header)
    /\ UNCHANGED <<color_table, image>>
    /\ UNCHANGED <<file, file_exists, rle_vars, parse_vars, read_vars,
                   palette_vars, viewer_vars, filter_vars, path_vars, use_vars, dock_vars>>

\* _create_8bit_qimage up to the call of read_256_color_palette
Create8bitQImage ==
    /\ qimage_pc = "reading"
    /\ read_pc = "returned"
    /\ IsSupportedFormat(read_header)
    /\ image' = QImage(read_header.width, read_header.height)
    /\ palette_pc' = "start"
    /\ qimage_pc' = "palette"
    /\ UNCHANGED <<color_table, qimage_result, palette_result>>
    /\ UNCHANGED <<file, file_exists, rle_vars, parse_vars, read_vars,
                   viewer_vars, filter_vars, path_vars, use_vars, dock_vars>>

\* the try branch: the colour table is built from the palette of the file
SetPaletteColorTable ==
    /\ qimage_pc = "palette"
    /\ palette_pc = "returned"
    /\ color_table' = PaletteColorTable(palette_result.data)
    /\ image' = [image EXCEPT !.color_table = color_table']
    /\ qimage_pc' = "filling"
    /\ UNCHANGED qimage_result
    /\ UNCHANGED <<file, file_exists, rle_vars, parse_vars, read_vars,
                   palette_vars, viewer_vars, filter_vars, path_vars, use_vars, dock_vars>>

\* except InvalidPCXError: the grey ramp
SetGrayColorTable ==
    /\ qimage_pc = "palette"
    /\ palette_pc = "raised"
    /\ palette_result.kind = "InvalidPCXError"
    /\ color_table' = GrayColorTable
    /\ image' = [image EXCEPT !.color_table = color_table']
    /\ qimage_pc' = "filling"
    /\ UNCHANGED qimage_result
    /\ UNCHANGED <<file, file_exists, rle_vars, parse_vars, read_vars,
                   palette_vars, viewer_vars, filter_vars, path_vars, use_vars, dock_vars>>

\* the loops over y and x, then return image
FillPixels ==
    /\ qimage_pc = "filling"
    /\ ~FillIndexError(read_result.data, read_header)
    /\ image' = [image EXCEPT !.pixels = FilledPixels(read_result.data, read_header)]
    /\ qimage_result' = [kind |-> "return", image |-> image', msg |-> <<>>]
    /\ qimage_pc' = "returned"
    /\ UNCHANGED color_table
    /\ UNCHANGED <<file, file_exists, rle_vars, parse_vars, read_vars,
                   palette_vars, viewer_vars, filter_vars, path_vars, use_vars, dock_vars>>

\* the loops over y and x when pixel_data ends inside a row: line_data[x]
\* raises IndexError and the image is dropped
FillRaise ==
    /\ qimage_pc = "filling"
    /\ FillIndexError(read_result.data, read_header)
    /\ qimage_result' = [kind |-> "IndexError", image |-> NoImage,
                         msg |-> <<"index out of range">>]
    /\ qimage_pc' = "raised"
    /\ UNCHANGED <<color_table, image>>
    /\ UNCHANGED <<file, file_exists, rle_vars, parse_vars, read_vars,
                   palette_vars, viewer_vars, filter_vars, path_vars, use_vars, dock_vars>>

QImageNext ==
    \/ QImageReadFailed
    \/ QImageUnsupported
    \/ Create8bitQImage
    \/ SetPaletteColorTable
    \/ SetGrayColorTable
    \/ FillPixels
    \/ FillRaise

(***************************************************************************)
(* The methods of PCXHeader that format it, and the functions of           *)
(* src/utils/pcx.py as functions of their arguments.                       *)
(***************************************************************************)
\* version_map.get(self.version, f"Unknown (version {self.version})")
get_version_string(h) ==
    CASE h.version = 0 -> <<"v2.5 PC Paintbrush">>
      [] h.version = 2 -> <<"v2.8 with palette">>
      [] h.version = 3 -> <<"v2.8 without palette">>
      [] h.version = 4 -> <<"PC Paintbrush for Windows">>
      [] h.version = 5 -> <<"v3.0+ (includes 24-bit support)">>
      [] OTHER         -> <<"Unknown (version {self.version})", h.version>>

get_palette_type_string(h) ==
    CASE h.palette_type = 1 -> <<"Color/B&W">>
      [] h.palette_type = 2 -> <<"Grayscale">>
      [] OTHER              -> <<"Unknown ({self.palette_type})", h.palette_type>>

\* for i in range(16): palette.append((r, g, b))
get_colormap_rgb(h) ==
    [k \in 1..16 |-> <<h.colormap[(k - 1) * 3 + 1],
                       h.colormap[(k - 1) * 3 + 2],
                       h.colormap[(k - 1) * 3 + 3]>>]

\* the local variable encoding of __str__
EncodingString(h) ==
    CASE h.encoding = 0 -> <<"Uncompressed">>
      [] h.encoding = 1 -> <<"RLE">>
      [] OTHER          -> <<"Unknown ({self.encoding})", h.encoding>>

\* PCXHeader.__str__: the lines by their labels, and the errors that follow
HeaderText(h) ==
    LET v == Validate(h)
    IN  [title          |-> "PCX Header Information",
         version        |-> get_version_string(h),
         encoding       |-> EncodingString(h),
         dimensions     |-> <<h.width, h.height>>,
         color_mode     |-> h.color_mode,
         bits_per_pixel |-> h.bits_per_pixel,
         num_planes     |-> h.num_planes,
         bytes_per_line |-> h.bytes_per_line,
         resolution     |-> <<h.hdpi, h.vdpi>>,
         palette_type   |-> get_palette_type_string(h),
         valid          |-> IF v.is_valid THEN "Yes" ELSE "No",
         errors         |-> IF v.is_valid THEN <<>> ELSE v.errors]

\* _create_8bit_qimage as one function of its arguments
create_8bit_qimage(f, pixel_data, h) ==
    LET palette == read_256_color_palette(f)
        table   == IF palette.kind = "return"
                   THEN PaletteColorTable(palette.data)
                   ELSE GrayColorTable
    IN  IF FillIndexError(pixel_data, h)
        THEN [kind |-> "IndexError", image |-> NoImage,
              msg |-> <<"index out of range">>]
        ELSE [kind |-> "return",
              image |-> [width |-> h.width, height |-> h.height,
                         color_table |-> table,
                         pixels |-> FilledPixels(pixel_data, h)],
              msg |-> <<>>]

\* pcx_to_qimage as one function of its arguments
pcx_to_qimage(f, h) ==
    LET pixel_data == read_and_decompress_pcx_data(f, h)
    IN  IF pixel_data.kind # "return"
        THEN [kind |-> pixel_data.kind, image |-> NoImage,
              msg |-> <<pixel_data.msg, pixel_data.got, pixel_data.expected>>]
        ELSE IF IsSupportedFormat(h)
             THEN create_8bit_qimage(f, pixel_data.data, h)
             ELSE UnsupportedFormatError(h)

\* for i in range(256): palette_data.extend([i, i, i])
GrayPaletteData == [k \in 1..768 |-> (k - 1) \div 3]

\* create_palette_image: 16 rows of 16 squares, each of one colour and
\* square_size pixels wide and high
create_palette_image(f, h) ==
    LET palette      == read_256_color_palette(f)
        palette_data == IF palette.kind = "return" THEN palette.data
                        ELSE GrayPaletteData
    IN  [width |-> 256, height |-> 256, square_size |-> 16,
         squares |->
            [row \in 0..15 |->
                [col \in 0..15 |->
                    Rgb(palette_data[(row * 16 + col) * 3 + 1],
                        palette_data[(row * 16 + col) * 3 + 2],
                        palette_data[(row * 16 + col) * 3 + 3])]]]

(***************************************************************************)
(* RightDockPanel and PCXInfoPanel (src/main.py)                           *)
(***************************************************************************)
MaxPanels == 3          \* how many panels are added to a dock
MaxAnims == 2           \* how many collapse animations run at one time

\* PCXInfoPanel() followed by set_pcx_info(header, file_path); the except
\* branch needs an error other than InvalidPCXError from a file that was
\* read a moment ago, and is left out
PCXInfoPanel(f, h) ==
    [header_text   |-> HeaderText(h),
     palette_label |-> create_palette_image(f, h)]

\* QLayout.insertWidget(index, widget)
InsertAt(s, index, item) ==
    SubSeq(s, 1, index) \o <<item>> \o SubSeq(s, index + 1, Len(s))

\* a checkable button flips its checked state before it emits clicked
QtClick(bs, index) == [bs EXCEPT ![index + 1].checked = ~@]

\* Mutant of ButtonsAfterToggle: the button of the panel that was open
\* stays checked.
ButtonsAfterToggleKeepsPrevious(bs, cur, index) ==
    IF cur = index
    THEN [bs EXCEPT ![index + 1].checked = FALSE]
    ELSE [bs EXCEPT ![index + 1].checked = TRUE]

\* the setChecked calls of _toggle_panel
ButtonsAfterToggle(bs, cur, index) ==
    IF cur = index
    THEN [bs EXCEPT ![index + 1].checked = FALSE]
    ELSE LET unchecked == IF cur # NoIndex
                          THEN [bs EXCEPT ![cur + 1].checked = FALSE]
                          ELSE bs
         IN  [unchecked EXCEPT ![index + 1].checked = TRUE]

\* the assignments to self.current_index of _toggle_panel
CurrentAfterToggle(cur, index) == IF cur = index THEN NoIndex ELSE index

\* add_panel(widget, tooltip, icon_path)
add_panel(widget, tooltip) ==
    LET index == Len(stack)                     \* self.stack.addWidget(widget)
    IN  /\ stack' = Append(stack, widget)
        /\ stack_index' = IF stack = <<>> THEN 0 ELSE stack_index
        /\ sidebar_layout' =
              InsertAt(sidebar_layout, Len(buttons),
                       [item |-> "button", index |-> index])
        /\ buttons' = Append(buttons, [index |-> index, tooltip |-> tooltip,
                                       checked |-> FALSE])
        /\ UNCHANGED <<current_index, last_click, stack_visible, collapsing>>

\* _toggle_panel(index), after the click on the button that holds index
toggle_panel(index) ==
    /\ buttons' = ButtonsAfterToggle(QtClick(buttons, index), current_index,
                                     index)
    /\ current_index' = CurrentAfterToggle(current_index, index)
    /\ IF current_index = index
       THEN /\ collapsing' = collapsing + 1          \* self._collapse()
            /\ last_click' = "collapse"
            /\ UNCHANGED <<stack_index, stack_visible>>
       ELSE /\ stack_index' = index       \* self.stack.setCurrentIndex(index)
            /\ stack_visible' = TRUE                 \* self._expand()
            /\ last_click' = "expand"
            /\ UNCHANGED collapsing
    /\ UNCHANGED <<stack, sidebar_layout>>

\* The panels a dock is given: the PCX information of two files.
DockWidgets ==
    {PCXInfoPanel(f, PCXHeader(Unpack(ReadHeaderBytes(f)))) :
        f \in {Pack(DefaultFields),
               Pack([DefaultFields EXCEPT !.version = 2])
                  \o <<PaletteMarker>> \o ColorPalette}}

\* right_panel.add_panel(pcx_panel, "PCX Info", "icons/pcx.png")
DockAddPanel ==
    /\ Len(stack) < MaxPanels
    /\ \E widget \in DockWidgets : add_panel(widget, "PCX Info")
    /\ UNCHANGED <<file, file_exists, rle_vars, parse_vars, read_vars,
                   palette_vars, image_vars, viewer_vars, filter_vars,
                   path_vars, use_vars>>

\* the user clicks one of the icon buttons
DockClick ==
    /\ collapsing < MaxAnims
    /\ \E b \in 1..Len(buttons) : toggle_panel(buttons[b].index)
    /\ UNCHANGED <<file, file_exists, rle_vars, parse_vars, read_vars,
                   palette_vars, image_vars, viewer_vars, filter_vars,
                   path_vars, use_vars>>

\* anim.finished of _collapse: lambda: self.stack.setVisible(False)
DockCollapseFinished ==
    /\ collapsing > 0
    /\ collapsing' = collapsing - 1
    /\ stack_visible' = FALSE
    /\ UNCHANGED <<stack, buttons, current_index, last_click, sidebar_layout,
                   stack_index>>
    /\ UNCHANGED <<file, file_exists, rle_vars, parse_vars, read_vars,
                   palette_vars, image_vars, viewer_vars, filter_vars,
                   path_vars, use_vars>>

DockNext ==
    \/ DockAddPanel
    \/ DockClick
    \/ DockCollapseFinished

(***************************************************************************)
(* ImageViewer.open_pcx_file (src/main.py)                                 *)
(***************************************************************************)
MaxOpens == 3           \* how many files a session opens

\* f"Failed to load PCX file: {str(e)}"
LoadFailedMessage(msg) == <<"Failed to load PCX file: {str(e)}", msg>>

\* QPixmap.fromImage(qimage).scaled(image_label.size(), KeepAspectRatio, ...)
ScaledPixmap(qimage) == [scaled_to |-> "image_label.size()", from_image |-> qimage]

\* the history of parse results, kept for the properties only
Remember == Append(seen, [file |-> file, result |-> parse_result])

\* header = PCXHeader.parse_pcx_header(file_path) raised: except Exception
OpenParseFailed ==
    /\ viewer_pc = "parsing"
    /\ parse_pc = "raised"
    /\ dialog' = LoadFailedMessage(<<parse_result.msg, parse_result.lines>>)
    /\ viewer_pc' = "done"
    /\ seen' = Remember
    /\ UNCHANGED <<image_label, window_title, opens>>
    /\ UNCHANGED <<file, file_exists, rle_vars, parse_vars, read_vars,
                   palette_vars, image_vars, filter_vars, path_vars, use_vars, dock_vars>>

\* qimage = pcx_to_qimage(file_path, header), up to the call of
\* read_and_decompress_pcx_data(file_path, header)
CallPcxToQImage ==
    /\ viewer_pc = "parsing"
    /\ parse_pc = "returned"
    /\ read_header' = parse_result.header
    /\ read_pc' = "start"
    /\ qimage_pc' = "reading"
    /\ viewer_pc' = "converting"
    /\ seen' = Remember
    /\ UNCHANGED <<read_result, color_table, image, qimage_result>>
    /\ UNCHANGED <<image_label, window_title, dialog, opens>>
    /\ UNCHANGED <<file, file_exists, rle_vars, parse_vars, palette_vars,
                   filter_vars, path_vars, use_vars, dock_vars>>

\* pcx_to_qimage raised: except Exception
OpenConvertFailed ==
    /\ viewer_pc = "converting"
    /\ qimage_pc = "raised"
    /\ dialog' = LoadFailedMessage(qimage_result.msg)
    /\ viewer_pc' = "done"
    /\ UNCHANGED <<image_label, window_title, opens, seen>>
    /\ UNCHANGED <<file, file_exists, rle_vars, parse_vars, read_vars,
                   palette_vars, image_vars, filter_vars, path_vars, use_vars, dock_vars>>

\* setImage(scaled_pixmap); pcx_panel = PCXInfoPanel();
\* pcx_panel.set_pcx_info(header, file_path); right_panel.add_panel(...);
\* setWindowTitle(f"PCX Viewer - {basename}")
OpenDisplay ==
    /\ viewer_pc = "converting"
    /\ qimage_pc = "returned"
    /\ image_label' = ScaledPixmap(qimage_result.image)
    /\ add_panel(PCXInfoPanel(file, parse_result.header), "PCX Info")
    /\ window_title' = "PCX Viewer - {os.path.basename(file_path)}"
    /\ viewer_pc' = "done"
    /\ UNCHANGED <<dialog, opens, seen>>
    /\ UNCHANGED <<file, file_exists, rle_vars, parse_vars, read_vars,
                   palette_vars, image_vars, filter_vars, path_vars, use_vars>>

\* One call of open_pcx_file with everything it calls.
ViewerNext ==
    \/ ParseOpenFails
    \/ ParseNext
    \/ OpenParseFailed
    \/ CallPcxToQImage
    \/ ReadNext
    \/ QImageNext
    \/ PaletteNext
    \/ OpenConvertFailed
    \/ OpenDisplay

(***************************************************************************)
(* The point operators (src/point_processing.py) and the spatial filters  *)
(* (src/spatial_domain.py), by the shape of the array they return.         *)
(***************************************************************************)
MaxDim == 3             \* largest height and width of a pixel array

ArrayReturned(shape) == [kind |-> "return", shape |-> shape]

ArrayRaised == [kind |-> "ValueError", shape |-> <<>>]

\* rgb_points[..., 0]: the last axis is indexed away
DropLastAxis(shape) == SubSeq(shape, 1, Len(shape) - 1)

\* not (rgb_points.ndim not in (2, 3) or rgb_points.shape[-1] != 3)
HasThreeChannels(shape) == Len(shape) \in {2, 3} /\ shape[Len(shape)] = 3

\* np.zeros_like(image, dtype=float), filled in place
convolve2d(shape) == shape

\* np.stack(channels, axis=2) of three arrays
StackChannels(shape) == Append(shape, 3)

to_grayscale(shape) ==
    IF ~HasThreeChannels(shape)
    THEN ArrayRaised
    ELSE ArrayReturned(DropLastAxis(shape))

to_negative(shape) ==
    IF ~HasThreeChannels(shape)
    THEN ArrayRaised
    ELSE ArrayReturned(shape)

manual_threshold(shape, threshold) ==
    IF ~(0 <= threshold /\ threshold <= 255)
    THEN ArrayRaised
    ELSE ArrayReturned(shape)

gamma_transform(shape, gamma) ==
    IF gamma <= 0
    THEN ArrayRaised
    ELSE ArrayReturned(shape)

\* np.dot(image[..., :3], [0.2989, 0.5870, 0.1140]) for a 3-D array, then
\* cdf_rounded[image - min_intensity]
histogram_equalization(shape) ==
    IF Len(shape) = 3
    THEN IF shape[3] < 3
         THEN ArrayRaised
         ELSE ArrayReturned(DropLastAxis(shape))
    ELSE ArrayReturned(shape)

\* the V channel is equalized and merged back with H and S
histogram_equalization_rgb(shape) ==
    IF Len(shape) = 2
    THEN histogram_equalization(shape)
    ELSE ArrayReturned(StackChannels(
            histogram_equalization(DropLastAxis(shape)).shape))

averaging_filter(shape) ==
    IF Len(shape) = 3
    THEN ArrayReturned(StackChannels(convolve2d(DropLastAxis(shape))))
    ELSE ArrayReturned(convolve2d(shape))

\* np.zeros_like(image) per channel, stacked for a 3-D array
median_filter(shape) ==
    IF Len(shape) = 3
    THEN ArrayReturned(StackChannels(DropLastAxis(shape)))
    ELSE ArrayReturned(shape)

\* Mutant of laplacian_highpass: the channels are filtered one by one and
\* stacked, as averaging_filter does.
laplacian_highpass_per_channel(shape) ==
    IF Len(shape) = 3
    THEN ArrayReturned(StackChannels(convolve2d(DropLastAxis(shape))))
    ELSE ArrayReturned(convolve2d(shape))

\* gray = the weighted sum of the channels for a 3-D array
laplacian_highpass(shape) ==
    IF Len(shape) = 3
    THEN ArrayReturned(convolve2d(DropLastAxis(shape)))
    ELSE ArrayReturned(convolve2d(shape))

\* image = to_grayscale(image) for a 3-D array
unsharp_mask(shape) ==
    IF Len(shape) = 3
    THEN IF to_grayscale(shape).kind = "ValueError"
         THEN ArrayRaised
         ELSE ArrayReturned(convolve2d(to_grayscale(shape).shape))
    ELSE ArrayReturned(convolve2d(shape))

\* The functions the claim names, with the argument of those that take one.
FilterOps ==
    {<<f, 0>> : f \in {"to_grayscale", "to_negative", "histogram_equalization",
                      "histogram_equalization_rgb", "averaging_filter",
                      "median_filter", "laplacian_highpass", "unsharp_mask"}}
    \cup {<<"manual_threshold", t>> : t \in {-1, 0, 128, 255, 256}}
    \cup {<<"gamma_transform", g>> : g \in {0, 1, 2}}

\* Grey arrays (H, W) and colour arrays (H, W, 3), as qimage_to_ndarray and
\* to_grayscale make them.
Shapes ==
    {<<h, w>> : h \in 1..MaxDim, w \in 1..MaxDim}
    \cup {<<h, w, 3>> : h \in 1..MaxDim, w \in 1..MaxDim}

ApplyFilter(op, shape) ==
    CASE op[1] = "to_grayscale"               -> to_grayscale(shape)
      [] op[1] = "to_negative"                -> to_negative(shape)
      [] op[1] = "manual_threshold"           -> manual_threshold(shape, op[2])
      [] op[1] = "gamma_transform"            -> gamma_transform(shape, op[2])
      [] op[1] = "histogram_equalization"     -> histogram_equalization(shape)
      [] op[1] = "histogram_equalization_rgb" -> histogram_equalization_rgb(shape)
      [] op[1] = "averaging_filter"           -> averaging_filter(shape)
      [] op[1] = "median_filter"              -> median_filter(shape)
      [] op[1] = "laplacian_highpass"         -> laplacian_highpass(shape)
      [] op[1] = "unsharp_mask"               -> unsharp_mask(shape)

FilterReturn ==
    /\ filter_pc = "start"
    /\ ApplyFilter(filter_op, in_shape).kind = "return"
    /\ out_shape' = ApplyFilter(filter_op, in_shape).shape
    /\ filter_pc' = "returned"
    /\ UNCHANGED <<filter_op, in_shape>>
    /\ UNCHANGED <<file, file_exists, rle_vars, parse_vars, read_vars,
                   palette_vars, image_vars, viewer_vars, path_vars,
                   use_vars, dock_vars>>

FilterRaise ==
    /\ filter_pc = "start"
    /\ ApplyFilter(filter_op, in_shape).kind = "ValueError"
    /\ out_shape' = <<>>
    /\ filter_pc' = "raised"
    /\ UNCHANGED <<filter_op, in_shape>>
    /\ UNCHANGED <<file, file_exists, rle_vars, parse_vars, read_vars,
                   palette_vars, image_vars, viewer_vars, path_vars,
                   use_vars, dock_vars>>

FilterNext ==
    \/ FilterReturn
    \/ FilterRaise

(***************************************************************************)
(* Specifications: one per entry point.                                    *)
(***************************************************************************)
InitRle ==
    /\ RleInitGeneral \/ RleInitUnit
    /\ i = 0
    /\ decompressed = <<>>
    /\ rle_pc = "loop"
    /\ rle_result = NoResult
    /\ file = <<>>
    /\ file_exists = TRUE
    /\ ParseIdle
    /\ ReadIdle
    /\ PaletteIdle
    /\ ImageIdle
    /\ ViewerIdle
    /\ FilterIdle
    /\ PathIdle
    /\ UseIdle
    /\ DockIdle

NextRle == RleNext

SpecRle == InitRle /\ [][NextRle]_vars

\* The loop of decompress_pcx_rle runs on until the call returns or raises.
SpecRleFair == SpecRle /\ WF_vars(NextRle)

InitHeader ==
    /\ file \in HeaderFiles
    /\ file_exists = TRUE
    /\ header_bytes = <<>>
    /\ header = NoHeader
    /\ validation = NoValidation
    /\ parse_pc = "start"
    /\ parse_result = NoParse
    /\ RleIdle
    /\ ReadIdle
    /\ PaletteIdle
    /\ ImageIdle
    /\ ViewerIdle
    /\ FilterIdle
    /\ PathIdle
    /\ UseIdle
    /\ DockIdle

NextHeader == ParseNext

SpecHeader == InitHeader /\ [][NextHeader]_vars

InitRead ==
    /\ file \in ReadFiles
    /\ read_header \in ReadHeaders
    /\ read_pc = "start"
    /\ read_result = NoResult
    /\ file_exists = TRUE
    /\ RleIdle
    /\ ParseIdle
    /\ PaletteIdle
    /\ ImageIdle
    /\ ViewerIdle
    /\ FilterIdle
    /\ PathIdle
    /\ UseIdle
    /\ DockIdle

NextRead == ReadNext

SpecRead == InitRead /\ [][NextRead]_vars

InitPalette ==
    /\ file \in PaletteFiles
    /\ file_exists = TRUE
    /\ palette_pc = "start"
    /\ palette_result = NoPalette
    /\ RleIdle
    /\ ParseIdle
    /\ ReadIdle
    /\ ImageIdle
    /\ ViewerIdle
    /\ FilterIdle
    /\ PathIdle
    /\ UseIdle
    /\ DockIdle

NextPalette == PaletteNext

SpecPalette == InitPalette /\ [][NextPalette]_vars

\* open_pcx_file(file_path) was called in a viewer that has shown nothing.
InitViewer ==
    /\ \/ file \in ViewerFiles /\ file_exists = TRUE
       \/ file = <<>> /\ file_exists = FALSE
    /\ viewer_pc = "parsing"
    /\ parse_pc = "start"
    /\ opens = 1
    /\ header_bytes = <<>>
    /\ header = NoHeader
    /\ validation = NoValidation
    /\ parse_result = NoParse
    /\ image_label = NoImage
    /\ window_title = "Simple Image Viewer"
    /\ dialog = <<>>
    /\ seen = <<>>
    /\ RleIdle
    /\ ReadIdle
    /\ PaletteIdle
    /\ ImageIdle
    /\ FilterIdle
    /\ PathIdle
    /\ UseIdle
    /\ DockIdle

NextViewer == ViewerNext

SpecViewer == InitViewer /\ [][NextViewer]_vars

\* The user picks a .pcx file in the dialog of open_image, also one that
\* was opened before, and open_pcx_file(file_path) is called.
OpenPcxFile ==
    /\ viewer_pc \in {"idle", "done"}
    /\ opens < MaxOpens
    /\ \/ file' \in SessionFiles /\ file_exists' = TRUE
       \/ file' = <<>> /\ file_exists' = FALSE
    /\ opens' = opens + 1
    /\ viewer_pc' = "parsing"
    /\ parse_pc' = "start"
    /\ read_pc' = "idle"
    /\ palette_pc' = "idle"
    /\ qimage_pc' = "idle"
    /\ UNCHANGED <<header_bytes, header, validation, parse_result>>
    /\ UNCHANGED <<read_header, read_result, palette_result>>
    /\ UNCHANGED <<color_table, image, qimage_result>>
    /\ UNCHANGED <<image_label, window_title, dialog, seen>>
    /\ UNCHANGED <<rle_vars, filter_vars, path_vars, use_vars, dock_vars>>

\* The viewer after ImageViewer.__init__.
InitSession ==
    /\ file = <<>>
    /\ file_exists = FALSE
    /\ RleIdle
    /\ ParseIdle
    /\ ReadIdle
    /\ PaletteIdle
    /\ ImageIdle
    /\ ViewerIdle
    /\ FilterIdle
    /\ PathIdle
    /\ UseIdle
    /\ DockIdle

NextSession == OpenPcxFile \/ ViewerNext

SpecSession == InitSession /\ [][NextSession]_vars

InitFilters ==
    /\ filter_op \in FilterOps
    /\ in_shape \in Shapes
    /\ filter_pc = "start"
    /\ out_shape = <<>>
    /\ file = <<>>
    /\ file_exists = TRUE
    /\ RleIdle
    /\ ParseIdle
    /\ ReadIdle
    /\ PaletteIdle
    /\ ImageIdle
    /\ ViewerIdle
    /\ PathIdle
    /\ UseIdle
    /\ DockIdle

NextFilters == FilterNext

SpecFilters == InitFilters /\ [][NextFilters]_vars

(***************************************************************************)
(* The methods of PCXHeader and the functions that are handed a header,    *)
(* called on one header object in any order, any number of times.          *)
(***************************************************************************)
\* Header objects built field by field, as the tests build them: valid ones
\* and ones that validate() objects to.
ConstructedFields ==
    {[DefaultFields EXCEPT !.manufacturer = m, !.version = v, !.encoding = e,
                           !.ymax = y1, !.palette_type = pt] :
        m \in {10, 255}, v \in {5, 1}, e \in {0, 1, 2},
        y1 \in 0..(MaxHeight - 1), pt \in {1, 2, 0}}

\* a header object exists
HeaderBuilt == parse_pc \in {"returned", "constructed"}

\* header = PCXHeader(manufacturer=..., ...)
UseConstruct ==
    /\ parse_pc = "start"
    /\ \E f \in ConstructedFields : header' = PCXHeader(f)
    /\ parse_pc' = "constructed"
    /\ UNCHANGED <<header_bytes, validation, parse_result>>
    /\ UNCHANGED <<file, file_exists, rle_vars, read_vars, palette_vars,
                   image_vars, viewer_vars, filter_vars, path_vars, use_vars,
                   dock_vars>>

\* header.validate()
UseValidate ==
    /\ HeaderBuilt
    /\ use_result' = [method |-> "validate", result |-> Validate(header)]
    /\ UNCHANGED header
    /\ UNCHANGED <<header_bytes, validation, parse_pc, parse_result>>
    /\ UNCHANGED <<file, file_exists, rle_vars, read_vars, palette_vars,
                   image_vars, viewer_vars, filter_vars, path_vars, dock_vars>>

\* str(header)
UseStr ==
    /\ HeaderBuilt
    /\ use_result' = [method |-> "__str__", result |-> HeaderText(header)]
    /\ UNCHANGED header
    /\ UNCHANGED <<header_bytes, validation, parse_pc, parse_result>>
    /\ UNCHANGED <<file, file_exists, rle_vars, read_vars, palette_vars,
                   image_vars, viewer_vars, filter_vars, path_vars, dock_vars>>

\* header.get_colormap_rgb()
UseGetColormapRgb ==
    /\ HeaderBuilt
    /\ use_result' = [method |-> "get_colormap_rgb",
                      result |-> get_colormap_rgb(header)]
    /\ UNCHANGED header
    /\ UNCHANGED <<header_bytes, validation, parse_pc, parse_result>>
    /\ UNCHANGED <<file, file_exists, rle_vars, read_vars, palette_vars,
                   image_vars, viewer_vars, filter_vars, path_vars, dock_vars>>

\* Mutant of UseReadAndDecompress: the header is marked as decoded.
UseReadAndDecompressMarksDecoded ==
    /\ HeaderBuilt
    /\ use_result' = [method |-> "read_and_decompress_pcx_data",
                      result |-> read_and_decompress_pcx_data(file, header)]
    /\ header' = [header EXCEPT !["encoding"] = 0]
    /\ UNCHANGED <<header_bytes, validation, parse_pc, parse_result>>
    /\ UNCHANGED <<file, file_exists, rle_vars, read_vars, palette_vars,
                   image_vars, viewer_vars, filter_vars, path_vars, dock_vars>>

\* read_and_decompress_pcx_data(file_path, header)
UseReadAndDecompress ==
    /\ HeaderBuilt
    /\ use_result' = [method |-> "read_and_decompress_pcx_data",
                      result |-> read_and_decompress_pcx_data(file, header)]
    /\ UNCHANGED header
    /\ UNCHANGED <<header_bytes, validation, parse_pc, parse_result>>
    /\ UNCHANGED <<file, file_exists, rle_vars, read_vars, palette_vars,
                   image_vars, viewer_vars, filter_vars, path_vars, dock_vars>>

\* pcx_to_qimage(file_path, header)
UsePcxToQImage ==
    /\ HeaderBuilt
    /\ use_result' = [method |-> "pcx_to_qimage",
                      result |-> pcx_to_qimage(file, header)]
    /\ UNCHANGED header
    /\ UNCHANGED <<header_bytes, validation, parse_pc, parse_result>>
    /\ UNCHANGED <<file, file_exists, rle_vars, read_vars, palette_vars,
                   image_vars, viewer_vars, filter_vars, path_vars, dock_vars>>

\* create_palette_image(file_path, header)
UseCreatePaletteImage ==
    /\ HeaderBuilt
    /\ use_result' = [method |-> "create_palette_image",
                      result |-> create_palette_image(file, header)]
    /\ UNCHANGED header
    /\ UNCHANGED <<header_bytes, validation, parse_pc, parse_result>>
    /\ UNCHANGED <<file, file_exists, rle_vars, read_vars, palette_vars,
                   image_vars, viewer_vars, filter_vars, path_vars, dock_vars>>

UseNext ==
    \/ UseConstruct
    \/ UseValidate
    \/ UseStr
    \/ UseGetColormapRgb
    \/ UseReadAndDecompress
    \/ UsePcxToQImage
    \/ UseCreatePaletteImage

\* A header parsed from a file or built field by field, then used.
InitHeaderUse ==
    /\ file \in SessionFiles
    /\ file_exists = TRUE
    /\ parse_pc = "start"
    /\ header_bytes = <<>>
    /\ header = NoHeader
    /\ validation = NoValidation
    /\ parse_result = NoParse
    /\ RleIdle
    /\ ReadIdle
    /\ PaletteIdle
    /\ ImageIdle
    /\ ViewerIdle
    /\ FilterIdle
    /\ PathIdle
    /\ UseIdle
    /\ DockIdle

NextHeaderUse == ParseNext \/ UseNext

SpecHeaderUse == InitHeaderUse /\ [][NextHeaderUse]_vars

\* A dock after RightDockPanel.__init__, then add_panel calls and clicks.
InitDock ==
    /\ DockIdle
    /\ file = <<>>
    /\ file_exists = TRUE
    /\ RleIdle
    /\ ParseIdle
    /\ ReadIdle
    /\ PaletteIdle
    /\ ImageIdle
    /\ ViewerIdle
    /\ FilterIdle
    /\ PathIdle
    /\ UseIdle

NextDock == DockNext

SpecDock == InitDock /\ [][NextDock]_vars

(***************************************************************************)
(* ImageViewer.open_image (src/main.py): a path is a sequence of           *)
(* characters.                                                             *)
(***************************************************************************)
MaxOpenImages == 2      \* how many times open_image is called

\* str.lower() on the characters that occur in the paths
Lower(c) ==
    CASE c = "P" -> "p"
      [] c = "C" -> "c"
      [] c = "X" -> "x"
      [] c = "A" -> "a"
      [] OTHER   -> c

\* file_path[-4:]
LastFour(path) == Drop(path, IF Len(path) > 4 THEN Len(path) - 4 ELSE 0)

\* file_path[-4:].lower() == ".pcx"
IsPcxPath(path) ==
    [k \in 1..Len(LastFour(path)) |-> Lower(LastFour(path)[k])]
        = <<".", "p", "c", "x">>

\* What the file dialog returns: names ending in .pcx in lower, upper and
\* mixed case, names that only hold the letters, and other names.
FilePaths ==
    {<<"a", ".", "p", "c", "x">>, <<"A", ".", "P", "C", "X">>,
     <<"a", ".", "P", "c", "x">>, <<"a", ".", "p", "n", "g">>,
     <<"p", "c", "x">>, <<"a", "p", "c", "x">>,
     <<"a", ".", "p", "c", "x", ".", "b", "a", "k">>}

\* The files behind the other names: the first bytes of a PNG file, and a
\* PCX file under another name.
RegularFiles ==
    {<<137, 80, 78, 71, 13, 10, 26, 10>>,
     Pack([DefaultFields EXCEPT !.encoding = 0]) \o <<7, 9>>}

\* self.pcx_info_panel exists: no line of ImageViewer assigns it
HasPcxInfoPanel == FALSE

\* QPixmap(file_path).scaled(image_label.size(), KeepAspectRatio, ...)
ScaledFilePixmap(f) == [scaled_to |-> "image_label.size()", from_file |-> f]

\* f"Failed to open image: {str(e)}"
OpenFailedMessage(msg) == <<"Failed to open image: {str(e)}", msg>>

\* if not file_path: return
OpenImageCancel ==
    /\ viewer_pc \in {"idle", "done"}
    /\ opens < MaxOpenImages
    /\ file_path' = <<>>
    /\ opens' = opens + 1
    /\ UNCHANGED <<viewer_pc, image_label, window_title, dialog, seen>>
    /\ UNCHANGED <<file, file_exists, rle_vars, parse_vars, read_vars,
                   palette_vars, image_vars, filter_vars, use_vars, dock_vars>>

\* the if branch: self.open_pcx_file(file_path), which catches its own
\* errors
OpenImagePcx ==
    /\ viewer_pc \in {"idle", "done"}
    /\ opens < MaxOpenImages
    /\ \E path \in FilePaths : IsPcxPath(path) /\ file_path' = path
    /\ \/ file' \in SessionFiles /\ file_exists' = TRUE
       \/ file' = <<>> /\ file_exists' = FALSE
    /\ opens' = opens + 1
    /\ viewer_pc' = "parsing"
    /\ parse_pc' = "start"
    /\ read_pc' = "idle"
    /\ palette_pc' = "idle"
    /\ qimage_pc' = "idle"
    /\ UNCHANGED <<header_bytes, header, validation, parse_result>>
    /\ UNCHANGED <<read_header, read_result, palette_result>>
    /\ UNCHANGED <<color_table, image, qimage_result>>
    /\ UNCHANGED <<image_label, window_title, dialog, seen>>
    /\ UNCHANGED <<rle_vars, filter_vars, use_vars, dock_vars>>

\* the else branch: self.pcx_info_panel.hide() comes first and raises
\* AttributeError, which except Exception turns into the error dialog
OpenImageRegular ==
    /\ viewer_pc \in {"idle", "done"}
    /\ opens < MaxOpenImages
    /\ \E path \in FilePaths : ~IsPcxPath(path) /\ file_path' = path
    /\ file' \in RegularFiles
    /\ file_exists' = TRUE
    /\ opens' = opens + 1
    /\ viewer_pc' = "done"
    /\ IF HasPcxInfoPanel
       THEN /\ image_label' = ScaledFilePixmap(file')
            /\ window_title' =
                  "Simple Image Viewer - {os.path.basename(file_path)}"
            /\ UNCHANGED dialog
       ELSE /\ dialog' = OpenFailedMessage(
                  "'ImageViewer' object has no attribute 'pcx_info_panel'")
            /\ UNCHANGED <<image_label, window_title>>
    /\ UNCHANGED seen
    /\ UNCHANGED <<rle_vars, parse_vars, read_vars, palette_vars, image_vars,
                   filter_vars, use_vars, dock_vars>>

\* The viewer after ImageViewer.__init__, then File > Open New Image File
\* any number of times.
InitOpenImage ==
    /\ file = <<>>
    /\ file_exists = FALSE
    /\ RleIdle
    /\ ParseIdle
    /\ ReadIdle
    /\ PaletteIdle
    /\ ImageIdle
    /\ ViewerIdle
    /\ FilterIdle
    /\ PathIdle
    /\ UseIdle
    /\ DockIdle

NextOpenImage ==
    \/ OpenImageCancel
    \/ OpenImagePcx
    \/ OpenImageRegular
    \/ ViewerNext

SpecOpenImage == InitOpenImage /\ [][NextOpenImage]_vars

Init ==
    \/ InitRle
    \/ InitHeader
    \/ InitRead
    \/ InitPalette
    \/ InitViewer
    \/ InitSession
    \/ InitFilters
    \/ InitHeaderUse
    \/ InitDock
    \/ InitOpenImage

Next ==
    \/ NextRle
    \/ NextHeader
    \/ NextRead
    \/ NextPalette
    \/ NextSession
    \/ NextFilters
    \/ NextHeaderUse
    \/ NextDock
    \/ NextOpenImage

Spec == Init /\ [][Next]_vars

(***************************************************************************)
(* Properties of decompress_pcx_rle (checked under SpecRle).               *)
(***************************************************************************)
RleDone == rle_pc \in {"returned", "raised"}

\* The expansion of a whole input, by arithmetic on the byte values: a byte
\* of 0xC0..0xFF followed by v stands for v repeated (byte - 0xC0) times,
\* any other byte for itself; a final marker with no value stands for nothing.
RECURSIVE ReferenceExpansion(_)
ReferenceExpansion(s) ==
    IF s = <<>> THEN <<>>
    ELSE IF s[1] >= 192
         THEN IF Len(s) = 1 THEN <<>>
              ELSE [k \in 1..(s[1] - 192) |-> s[2]]
                   \o ReferenceExpansion(SubSeq(s, 3, Len(s)))
         ELSE <<s[1]>> \o ReferenceExpansion(Tail(s))

\* The input ends with a run marker that has no value byte.
RECURSIVE EndsInMarker(_)
EndsInMarker(s) ==
    IF s = <<>> THEN FALSE
    ELSE IF s[1] >= 192
         THEN IF Len(s) = 1 THEN TRUE ELSE EndsInMarker(SubSeq(s, 3, Len(s)))
         ELSE EndsInMarker(Tail(s))

\* C1: whenever decompress_pcx_rle returns, the result is exactly
\* bytes_per_line * num_planes * height bytes long and is the prefix of that
\* length of the reference expansion of the input; output beyond that length
\* is dropped and is never an error.
C1_TruncationLaw ==
    /\ rle_pc = "returned" =>
          /\ rle_result.kind = "return"
          /\ Len(rle_result.data) =
                rle_args.bytes_per_line * rle_args.num_planes * rle_args.height
          /\ rle_result.data =
                SubSeq(ReferenceExpansion(compressed_data), 1,
                       rle_args.bytes_per_line * rle_args.num_planes * rle_args.height)
    /\ (RleDone /\ Len(decompressed) >
            rle_args.bytes_per_line * rle_args.num_planes * rle_args.height)
          => rle_pc = "returned"

\* A run straddles the end: 0xC2 v v2... produced more than was needed.
C1_Witness ==
    /\ rle_pc = "returned"
    /\ Len(rle_result.data) > 0
    /\ Len(decompressed) > Len(rle_result.data)
    /\ Len(ReferenceExpansion(compressed_data)) > Len(rle_result.data)

\* C2: the input [b, v] with b in 0xC0..0xFF and total_needed = b & 0x3F
\* decodes to v repeated b & 0x3F times.
C2_SingleRun ==
    (/\ RleDone
     /\ Len(compressed_data) = 2
     /\ compressed_data[1] \in 192..255
     /\ total_bytes_needed = compressed_data[1] - 192)
    => /\ rle_pc = "returned"
       /\ rle_result.data =
             [k \in 1..(compressed_data[1] - 192) |-> compressed_data[2]]

\* The longest run: [0xFF, v] gave 63 bytes.
C2_Witness ==
    /\ rle_pc = "returned"
    /\ Len(compressed_data) = 2
    /\ compressed_data[1] = 255
    /\ total_bytes_needed = 63
    /\ Len(rle_result.data) = 63

\* C3: an input of literal bytes only (0x00..0xBF), with total_needed equal
\* to its length, decodes to itself; in particular [b] with total_needed 1.
C3_LiteralIdentity ==
    (/\ RleDone
     /\ \A k \in 1..Len(compressed_data) : compressed_data[k] \in 0..191
     /\ total_bytes_needed = Len(compressed_data))
    => /\ rle_pc = "returned"
       /\ rle_result.data = compressed_data

\* The largest literal 0xBF among several literals came back unchanged.
C3_Witness ==
    /\ rle_pc = "returned"
    /\ Len(compressed_data) = MaxLen
    /\ \A k \in 1..Len(compressed_data) : compressed_data[k] \in 0..191
    /\ \E k \in 1..Len(compressed_data) : compressed_data[k] = 191
    /\ total_bytes_needed = Len(compressed_data)
    /\ rle_result.data = compressed_data

\* C4: when the whole input expands to fewer bytes than total_needed (the
\* empty input included), the call raises the incomplete-data error, whose
\* message carries the number of bytes produced and the number expected; a
\* buffer shorter than total_needed is never returned.
C4_IncompleteData ==
    /\ (/\ RleDone
        /\ ~EndsInMarker(compressed_data)
        /\ Len(ReferenceExpansion(compressed_data)) < total_bytes_needed)
       => /\ rle_pc = "raised"
          /\ rle_result.kind = "InvalidPCXError"
          /\ rle_result.msg =
                "Incomplete RLE data: got {got} bytes, expected {expected}"
          /\ rle_result.got = Len(ReferenceExpansion(compressed_data))
          /\ rle_result.expected = total_bytes_needed
    /\ rle_pc = "returned" => Len(rle_result.data) >= total_bytes_needed

\* A non-empty input that produced some bytes, but too few.
C4_Witness ==
    /\ rle_pc = "raised"
    /\ ~EndsInMarker(compressed_data)
    /\ rle_result.got > 0
    /\ rle_result.got < rle_result.expected
    /\ i = Len(compressed_data)

\* C5: when the last byte of the input is a run marker and the output is
\* still short of total_needed when it is read, the call raises the
\* missing-value error, not the incomplete-data error, and returns nothing.
C5_MissingRunValue ==
    (/\ RleDone
     /\ EndsInMarker(compressed_data)
     /\ Len(ReferenceExpansion(compressed_data)) < total_bytes_needed)
    => /\ rle_pc = "raised"
       /\ rle_result.kind = "InvalidPCXError"
       /\ rle_result.msg = "Unexpected end of RLE data (missing value byte)"
       /\ rle_result.data = <<>>

\* The marker was the last byte, after some output had been produced.
C5_Witness ==
    /\ rle_pc = "raised"
    /\ rle_result.msg = "Unexpected end of RLE data (missing value byte)"
    /\ Len(decompressed) > 0
    /\ i = Len(compressed_data)
    /\ compressed_data[i] \in 192..255

(***************************************************************************)
(* Properties of read_and_decompress_pcx_data (checked under SpecRead).    *)
(***************************************************************************)
ReadDone == read_pc \in {"returned", "raised"}

\* C6: with header.encoding = 0 the call returns the bytes of the file after
\* offset 128 unchanged, however many there are, and never raises; with
\* header.encoding = 1 it returns the RLE decoding of those bytes (or raises
\* when they expand to too few).
C6_EncodingDispatch ==
    LET body  == SubSeq(file, 129, Len(file))
        total == read_header.bytes_per_line * read_header.num_planes
                    * read_header.height
        ref   == ReferenceExpansion(body)
    IN  /\ (ReadDone /\ read_header.encoding = 0)
            => /\ read_pc = "returned"
               /\ read_result.kind = "return"
               /\ read_result.data = body
        /\ (ReadDone /\ read_header.encoding = 1 /\ Len(ref) >= total)
            => /\ read_pc = "returned"
               /\ read_result.data = SubSeq(ref, 1, total)
        /\ (ReadDone /\ read_header.encoding = 1 /\ Len(ref) < total)
            => /\ read_pc = "raised"
               /\ read_result.kind = "InvalidPCXError"

\* An unencoded file with fewer bytes than the header's dimensions ask for.
C6_Witness ==
    /\ read_pc = "returned"
    /\ read_header.encoding = 0
    /\ Len(read_result.data) > 0
    /\ Len(read_result.data) <
          read_header.bytes_per_line * read_header.num_planes * read_header.height
    /\ \E k \in 1..Len(read_result.data) : read_result.data[k] \in 192..255

(***************************************************************************)
(* Properties of PCXHeader (checked under SpecHeader).                     *)
(***************************************************************************)
ParseDone == parse_pc \in {"returned", "raised"}

\* C7: a file of fewer than 128 bytes is rejected with the too-small error,
\* whose message carries the file's byte count and names the 128 required;
\* the header is not built and no validation message is produced.
C7_FileTooSmall ==
    (ParseDone /\ Len(file) < 128)
    => /\ parse_pc = "raised"
       /\ parse_result.kind = "InvalidPCXError"
       /\ parse_result.msg =
             <<"File too small: only {len(header_bytes)} bytes (need 128 for header)",
               Len(file)>>
       /\ parse_result.lines = <<>>
       /\ header = NoHeader
       /\ validation = NoValidation

\* 127 bytes whose first byte is not the manufacturer byte.
C7_Witness ==
    /\ parse_pc = "raised"
    /\ Len(file) = 127
    /\ file[1] # 10
    /\ parse_result.msg[2] = 127

\* The rules of the header invariant set, each with the text of its message.
Rules ==
    {"manufacturer", "encoding", "version", "bits_per_pixel", "x", "y", "size",
     "even", "line", "planes"}

RuleText(r) ==
    CASE r = "manufacturer" ->
            "Invalid manufacturer byte: 0x{manufacturer:02X} (expected 0x0A)"
      [] r = "encoding" ->
            "Unsupported encoding: {encoding} (only 0=uncompressed and 1=RLE are supported)"
      [] r = "version" -> "Unknown version: {version}"
      [] r = "bits_per_pixel" -> "Invalid bits per pixel: {bits_per_pixel}"
      [] r = "x" -> "Invalid X dimensions: xmax ({xmax}) < xmin ({xmin})"
      [] r = "y" -> "Invalid Y dimensions: ymax ({ymax}) < ymin ({ymin})"
      [] r = "size" -> "Invalid image size: {width}x{height}"
      [] r = "even" -> "Bytes per line must be even: {bytes_per_line}"
      [] r = "line" ->
            "Bytes per line ({bytes_per_line}) too small for image width ({width})"
      [] r = "planes" -> "Unusual number of planes: {num_planes}"

\* Whether header h keeps rule r (bytes_per_line >= ceil(width * bpp / 8)
\* is 8 * bytes_per_line >= width * bpp).
RuleHolds(h, r) ==
    CASE r = "manufacturer" -> h.manufacturer = 10
      [] r = "encoding" -> h.encoding \in {0, 1}
      [] r = "version" -> h.version \in {0, 2, 3, 4, 5}
      [] r = "bits_per_pixel" -> h.bits_per_pixel \in {1, 2, 4, 8}
      [] r = "x" -> h.xmax >= h.xmin
      [] r = "y" -> h.ymax >= h.ymin
      [] r = "size" -> h.width > 0 /\ h.height > 0
      [] r = "even" -> \E k \in 0..32767 : h.bytes_per_line = 2 * k
      [] r = "line" -> 8 * h.bytes_per_line >= h.width * h.bits_per_pixel
      [] r = "planes" -> h.num_planes \in {1, 3, 4}

MessagesOf(errors, r) == {k \in 1..Len(errors) : errors[k][1] = RuleText(r)}

\* C8: validate() returns one message for each violated rule and none for a
\* rule that holds, whatever the number of violations, and its boolean is
\* true exactly when the list is empty.
C8_ValidateCollectsAll ==
    (ParseDone /\ header # NoHeader)
    => /\ \A r \in Rules :
             Cardinality(MessagesOf(validation.errors, r)) =
                IF RuleHolds(header, r) THEN 0 ELSE 1
       /\ Len(validation.errors) =
             Cardinality({r \in Rules : ~RuleHolds(header, r)})
       /\ validation.is_valid <=> (validation.errors = <<>>)

\* Nine rules violated at once (an x violation excludes the line rule).
C8_Witness ==
    /\ ParseDone
    /\ header # NoHeader
    /\ Len(validation.errors) = 9
    /\ ~validation.is_valid

\* C9: a 128-byte buffer yields a header exactly when validate() reports no
\* violation; any violation, also num_planes outside {1,3,4} alone, gives one
\* error that lists every violation message, and no header.
C9_RejectOnAnyViolation ==
    (ParseDone /\ Len(file) >= 128)
    => /\ (parse_result.kind = "return") <=> (validation.errors = <<>>)
       /\ (parse_result.kind = "return") <=> (parse_pc = "returned")
       /\ parse_result.kind = "return" => parse_result.header = header
       /\ validation.errors # <<>> =>
             /\ parse_result.kind = "InvalidPCXError"
             /\ parse_result.msg = <<"Invalid PCX header:">>
             /\ parse_result.lines = validation.errors
             /\ parse_result.header = NoHeader
       /\ file[66] \notin {1, 3, 4} =>
             /\ parse_result.kind = "InvalidPCXError"
             /\ \E k \in 1..Len(parse_result.lines) :
                   parse_result.lines[k] =
                      <<"Unusual number of planes: {num_planes}", file[66]>>

\* A header whose only violation is num_planes = 2.
C9_Witness ==
    /\ parse_pc = "raised"
    /\ Len(file) >= 128
    /\ parse_result.lines = <<<<"Unusual number of planes: {num_planes}", 2>>>>

\* C10: every header built has width = xmax - xmin + 1 and
\* height = ymax - ymin + 1, and in every header parse_pcx_header returns
\* both are greater than 0.
C10_Dimensions ==
    /\ (ParseDone /\ header # NoHeader)
       => /\ header.width = header.xmax - header.xmin + 1
          /\ header.height = header.ymax - header.ymin + 1
          /\ header.xmin = file[5] + 256 * file[6]
          /\ header.ymin = file[7] + 256 * file[8]
          /\ header.xmax = file[9] + 256 * file[10]
          /\ header.ymax = file[11] + 256 * file[12]
    /\ parse_pc = "returned"
       => /\ parse_result.header.width > 0
          /\ parse_result.header.height > 0

\* An accepted header of a 2x2 image.
C10_Witness ==
    /\ parse_pc = "returned"
    /\ parse_result.header.width = 2
    /\ parse_result.header.height = 2

\* The colour mode the table of the data model gives a product of
\* bits_per_pixel and num_planes.
ModeOfProduct(product) ==
    IF product \in {1, 2, 4, 8, 24}
    THEN <<[p \in {1, 2, 4, 8, 24} |->
              CASE p = 1  -> "1-bit Monochrome"
                [] p = 2  -> "2-bit (4 colors)"
                [] p = 4  -> "4-bit (16 colors)"
                [] p = 8  -> "8-bit (256 colors)"
                [] p = 24 -> "24-bit True Color (RGB)"][product]>>
    ELSE <<"Unknown ({total_bits}-bit)", product>>

\* C11: color_mode depends only on bits_per_pixel * num_planes: 1, 2, 4, 8
\* and 24 give the five named modes, every other product the unknown mode
\* that names the product (so equal products give equal modes).
C11_ColorMode ==
    (ParseDone /\ header # NoHeader)
    => header.color_mode = ModeOfProduct(file[4] * file[66])

\* 16 colours from one bit in four planes.
C11_Witness ==
    /\ ParseDone
    /\ header # NoHeader
    /\ header.bits_per_pixel = 1
    /\ header.num_planes = 4
    /\ header.color_mode = <<"4-bit (16 colors)">>

(***************************************************************************)
(* Properties of read_256_color_palette (checked under SpecPalette).       *)
(***************************************************************************)
PaletteDone == palette_pc \in {"returned", "raised"}

\* C13: a file shorter than 128 + 769 = 897 bytes always gets the
\* too-small-for-palette error, whatever it holds, also with 0x0C at
\* offset length - 769.
C13_TooSmallForPalette ==
    (PaletteDone /\ Len(file) < 897)
    => /\ palette_pc = "raised"
       /\ palette_result.kind = "InvalidPCXError"
       /\ palette_result.msg = "File too small for 256-color palette"
       /\ palette_result.data = <<>>

\* 896 bytes with 0x0C where the marker would be.
C13_Witness ==
    /\ palette_pc = "raised"
    /\ Len(file) = 896
    /\ file[896 - 769 + 1] = 12
    /\ palette_result.msg = "File too small for 256-color palette"

\* C14: for a file of at least 897 bytes, 0x0C at offset length - 769 gives
\* exactly the last 768 bytes in order (entry k is bytes 3k..3k+2 of them);
\* any other byte there gives the missing-marker error and no palette.
C14_PaletteByMarker ==
    (PaletteDone /\ Len(file) >= 897)
    => IF file[Len(file) - 769 + 1] = 12
       THEN /\ palette_pc = "returned"
            /\ Len(palette_result.data) = 768
            /\ \A k \in 0..255 : \A c \in 0..2 :
                  palette_result.data[3 * k + c + 1] =
                     file[Len(file) - 768 + 3 * k + c + 1]
       ELSE /\ palette_pc = "raised"
            /\ palette_result.kind = "InvalidPCXError"
            /\ palette_result.msg = "Missing or invalid 256-color palette marker"
            /\ palette_result.data = <<>>

\* A coloured palette came back from a file with image data before it.
C14_Witness ==
    /\ palette_pc = "returned"
    /\ Len(file) > 897
    /\ palette_result.data[1] = 0
    /\ palette_result.data[2] = 255
    /\ palette_result.data[3] = 12
    /\ palette_result.data[768] = 12

(***************************************************************************)
(* Properties of a session of open_pcx_file calls (checked under           *)
(* SpecSession).                                                           *)
(***************************************************************************)
ParseFinished == viewer_pc = "parsing" /\ ParseDone

\* C12: parsing is deterministic and stateless: when a file that was parsed
\* before is parsed again, whatever was parsed or decoded since, the
\* outcome is the one of the first time: the same header in every raw and
\* derived field, or the same error.
C12_ParseStateless ==
    ParseFinished
    => \A k \in 1..Len(seen) :
          (seen[k].file = file /\ file_exists)
          => /\ parse_result = seen[k].result
             /\ \A n \in DOMAIN seen[k].result.header :
                   parse_result.header[n] = seen[k].result.header[n]

\* A valid file is parsed, another file is parsed and decoded, and the
\* first is parsed again.
C12_Witness ==
    /\ ParseFinished
    /\ parse_pc = "returned"
    /\ file_exists
    /\ Len(seen) = 2
    /\ seen[1].file = file
    /\ seen[2].file # file
    /\ seen[2].result.kind = "return"
    /\ qimage_result.kind = "return"

(***************************************************************************)
(* Properties of one open_pcx_file call (checked under SpecViewer).        *)
(***************************************************************************)
QImageDone == qimage_pc \in {"returned", "raised"}

\* C15: in the 8-bit decode a palette-read failure never fails the decode:
\* the image is still produced and its colour table is the grey ramp
\* table[i] = (i, i, i); when the palette read succeeds the table is the
\* 256 triplets read from the file.
C15_PaletteFallback ==
    /\ (QImageDone /\ palette_pc = "raised")
       => /\ qimage_pc = "returned"
          /\ \A k \in 0..255 :
                qimage_result.image.color_table[k + 1] = <<255, k, k, k>>
    /\ (qimage_pc = "returned" /\ palette_pc = "returned")
       => \A k \in 0..255 :
             qimage_result.image.color_table[k + 1] =
                <<255, file[Len(file) - 768 + 3 * k + 1],
                       file[Len(file) - 768 + 3 * k + 2],
                       file[Len(file) - 768 + 3 * k + 3]>>

\* C16: a valid header that is not (8, 1) always ends the decode in the
\* unsupported-format error naming its color_mode, with no image; an image
\* is assembled only for (8, 1).
C16_UnsupportedFormat ==
    /\ (QImageDone /\ ~IsSupportedFormat(parse_result.header))
       => /\ qimage_pc = "raised"
          /\ qimage_result.kind = "ValueError"
          /\ qimage_result.msg[2] = parse_result.header.color_mode
          /\ qimage_result.image = NoImage
    /\ qimage_pc = "returned" => IsSupportedFormat(parse_result.header)

\* C17: in every assembled 8-bit image the palette index of pixel (x, y) is
\* the decompressed byte at offset y * bytes_per_line + x, so the bytes at
\* row positions width..bytes_per_line-1 are in no pixel.
C17_PixelOffsets ==
    qimage_pc = "returned"
    => /\ qimage_result.image.width = parse_result.header.width
       /\ qimage_result.image.height = parse_result.header.height
       /\ \A y \in 0..(parse_result.header.height - 1) :
          \A x \in 0..(parse_result.header.width - 1) :
             /\ y * parse_result.header.bytes_per_line + x < Len(read_result.data)
             /\ qimage_result.image.pixels[y][x] =
                   read_result.data[y * parse_result.header.bytes_per_line + x + 1]

\* Two rows of one pixel in rows of two bytes: the padding bytes differ from
\* the pixels.
C17_Witness ==
    /\ qimage_pc = "returned"
    /\ parse_result.header.width = 1
    /\ parse_result.header.height = 2
    /\ parse_result.header.bytes_per_line = 2
    /\ read_result.data[2] # read_result.data[1]
    /\ read_result.data[2] # read_result.data[3]
    /\ qimage_result.image.pixels[1][0] = read_result.data[3]

\* C18: an error of header parsing or of RLE decoding aborts the decode:
\* pcx_to_qimage hands back no image, nothing is shown, and the error is
\* what the caller gets (the dialog of open_pcx_file shows its message).
C18_ErrorsAbort ==
    /\ parse_pc = "raised"
       => /\ qimage_pc = "idle"
          /\ qimage_result = NoQImage
          /\ image = NoImage
          /\ image_label = NoImage
          /\ viewer_pc = "done"
             => dialog = <<"Failed to load PCX file: {str(e)}",
                           <<parse_result.msg, parse_result.lines>>>>
    /\ (read_pc = "raised" /\ qimage_pc # "reading")
       => /\ qimage_pc = "raised"
          /\ qimage_result.kind = "InvalidPCXError"
          /\ qimage_result.msg[1] = read_result.msg
          /\ qimage_result.image = NoImage
          /\ image = NoImage
          /\ image_label = NoImage
          /\ viewer_pc = "done"
             => dialog = <<"Failed to load PCX file: {str(e)}",
                           <<read_result.msg, read_result.got,
                             read_result.expected>>>>

\* An RLE stream that ends early reached the dialog.
C18_Witness ==
    /\ viewer_pc = "done"
    /\ read_pc = "raised"
    /\ read_result.msg = "Incomplete RLE data: got {got} bytes, expected {expected}"
    /\ dialog[2][1] = read_result.msg
    /\ image_label = NoImage

\* C19: for a path that cannot be opened parse_pcx_header fails with a
\* PCXError whose message contains 'Failed to read file'.
C19_OpenFailureIsPCXError ==
    (ParseDone /\ ~file_exists)
    => /\ parse_result.kind = "PCXError"
       /\ parse_result.msg[1] = "Failed to read file: {e}"

(***************************************************************************)
(* Properties of the point operators and spatial filters (checked under    *)
(* SpecFilters).                                                           *)
(***************************************************************************)
\* C20 as stated: every point operator and spatial filter returns an array
\* of the shape of its input.
C20_SameShape ==
    filter_pc = "returned" => out_shape = in_shape

KeepsShape ==
    {"to_negative", "manual_threshold", "gamma_transform",
     "histogram_equalization_rgb", "averaging_filter", "median_filter"}

\* C20 (amended): negative, threshold, gamma, colour histogram
\* equalization, averaging and median return the shape of their input;
\* histogram_equalization, laplacian_highpass and unsharp_mask do so for a
\* 2-D array and return (H, W) for an (H, W, 3) array; to_grayscale always
\* returns its input's shape without the last axis.
C20_ShapeByOperator ==
    filter_pc = "returned"
    => out_shape =
          IF \/ filter_op[1] \in KeepsShape
             \/ Len(in_shape) = 2 /\ filter_op[1] # "to_grayscale"
          THEN in_shape
          ELSE [k \in 1..(Len(in_shape) - 1) |-> in_shape[k]]

\* The Laplacian of a colour array came back as a grey array.
C20_Witness ==
    /\ filter_pc = "returned"
    /\ filter_op[1] = "laplacian_highpass"
    /\ in_shape = <<2, 3, 3>>
    /\ out_shape = <<2, 3>>

(***************************************************************************)
(* Further properties of decompress_pcx_rle (checked under SpecRle and     *)
(* SpecRleFair).                                                           *)
(***************************************************************************)
\* What may follow an input that decoded: a dangling run marker, a literal,
\* a whole run, a zero-length run.
AppendedTails == {<<192>>, <<255>>, <<5>>, <<194, 7>>, <<192, 9, 127>>}

\* C21: the decoder stops reading once the output has total_needed bytes:
\* the bytes after the last read position are never examined, so an input
\* that decoded gives the same result, and no error, with any bytes appended
\* (also a run marker with no value byte) or with its unread bytes cut off.
C21_StopsWhenFull ==
    rle_pc = "returned"
    => /\ \A tail \in AppendedTails :
             decompress_pcx_rle(compressed_data \o tail, rle_args.bytes_per_line,
                                rle_args.num_planes, rle_args.height) = rle_result
       /\ decompress_pcx_rle(Take(compressed_data, i), rle_args.bytes_per_line,
                             rle_args.num_planes, rle_args.height) = rle_result

\* One literal was enough and a dangling run marker after it was not read.
C21_Witness ==
    /\ rle_pc = "returned"
    /\ compressed_data = <<5, 192>>
    /\ i = 1
    /\ rle_result.data = <<5>>

\* C25: a run marker of length 0 (0xC0) that is followed by a value byte
\* adds nothing to the output, wherever it stands: the step consumes the
\* marker and the value byte, and neither is appended.
C25_ZeroRun ==
    [][(/\ rle_pc = "loop"
        /\ i + 1 < Len(compressed_data)
        /\ compressed_data[i + 1] = 192
        /\ Len(decompressed) < rle_args.bytes_per_line * rle_args.num_planes
                                  * rle_args.height)
       => /\ i' = i + 2
          /\ decompressed' = decompressed
          /\ rle_pc' = "loop"]_vars

\* A zero-length run with value 5 stood before the literal that was returned.
C25_Witness ==
    /\ rle_pc = "returned"
    /\ compressed_data = <<192, 5, 127>>
    /\ i = 3
    /\ rle_result.data = <<127>>

\* C26: decompress_pcx_rle depends on bytes_per_line, num_planes and height
\* through their product only: every other triple with the same product
\* gives the same result or the same error on the same input, and a run goes
\* on across scanline and plane boundaries.
C26_ProductOnly ==
    RleDone
    => \A b \in 0..(MaxBytesPerLine * MaxPlanes) : \A p \in 1..MaxPlanes :
       \A h \in 0..(MaxHeight * MaxPlanes) :
          b * p * h = rle_args.bytes_per_line * rle_args.num_planes
                         * rle_args.height
          => decompress_pcx_rle(compressed_data, b, p, h) = rle_result

\* One run filled two planes of two scanlines of one byte.
C26_Witness ==
    /\ rle_pc = "returned"
    /\ rle_args = [bytes_per_line |-> 1, num_planes |-> 2, height |-> 2]
    /\ compressed_data = <<255, 5>>
    /\ rle_result.data = <<5, 5, 5, 5>>

\* C27: the decoder is one forward scan that always ends: every loop step
\* moves the read position on by 1 (a literal, or a marker without value,
\* which raises) or by 2 (a run), the position never passes the end of the
\* input, the steps taken never outnumber the bytes read, and the call
\* returns or raises.
C27_ForwardScan ==
    /\ [][rle_pc = "loop"
          => /\ i' \in {i, i + 1, i + 2}
             /\ i' <= Len(compressed_data)
             /\ i' = i => rle_pc' # "loop"
             /\ i' = i + 2 =>
                   (compressed_data[i + 1] >= 192 /\ rle_pc' = "loop")
             /\ (i' = i + 1 /\ rle_pc' = "loop") => compressed_data[i + 1] < 192
             /\ (i' = i + 1 /\ rle_pc' # "loop") =>
                   (compressed_data[i + 1] >= 192 /\ rle_pc' = "raised")]_vars
    /\ [](i <= Len(compressed_data))
    /\ <>RleDone

\* A literal and a run were read to the end of the input.
C27_Witness ==
    /\ rle_pc = "returned"
    /\ compressed_data = <<5, 194, 127>>
    /\ i = 3
    /\ rle_result.data = <<5, 127, 127>>

(***************************************************************************)
(* Further properties of PCXHeader (checked under SpecHeader).             *)
(***************************************************************************)
\* The place of a message in the order of the header fields.
FieldRank(text) ==
    CASE text = RuleText("manufacturer")   -> 1
      [] text = RuleText("version")        -> 2
      [] text = RuleText("encoding")       -> 3
      [] text = RuleText("bits_per_pixel") -> 4
      [] text = RuleText("x")              -> 5
      [] text = RuleText("y")              -> 6
      [] text = RuleText("size")           -> 7
      [] text = RuleText("even")           -> 8
      [] text = RuleText("line")           -> 8
      [] text = RuleText("planes")         -> 9

\* C22: the messages of validate() always stand in the order of the header
\* fields: manufacturer, version, encoding, bits_per_pixel, x bounds,
\* y bounds, size, bytes_per_line, num_planes.
C22_FieldOrder ==
    (ParseDone /\ header # NoHeader)
    => \A j \in 1..Len(validation.errors) : \A k \in 1..Len(validation.errors) :
          j < k => FieldRank(validation.errors[j][1])
                      <= FieldRank(validation.errors[k][1])

\* The value of a 16-bit field read as signed.
AsSigned16(lo, hi) == IF hi >= 128 THEN lo + 256 * hi - 65536 ELSE lo + 256 * hi

\* C23 as stated: the bounds are decoded as signed 16-bit values, and width,
\* height and the checks are computed on the signed values.
C23_SignedBounds ==
    (ParseDone /\ header # NoHeader)
    => /\ header.xmin = AsSigned16(file[5], file[6])
       /\ header.ymin = AsSigned16(file[7], file[8])
       /\ header.xmax = AsSigned16(file[9], file[10])
       /\ header.ymax = AsSigned16(file[11], file[12])

\* C23 (amended): the bounds are decoded as unsigned 16-bit values (bytes
\* with the top bit set give values from 32768 to 65535, never negative
\* ones), and width, height and the checks xmax >= xmin, ymax >= ymin are
\* computed on those unsigned values.
C23_UnsignedBounds ==
    (ParseDone /\ header # NoHeader)
    => /\ \A n \in {"xmin", "ymin", "xmax", "ymax"} : header[n] \in 0..65535
       /\ file[10] >= 128 => header.xmax = file[9] + 256 * file[10]
       /\ file[6] >= 128 => header.xmin = file[5] + 256 * file[6]
       /\ header.width = (file[9] + 256 * file[10]) - (file[5] + 256 * file[6]) + 1
       /\ header.height = (file[11] + 256 * file[12]) - (file[7] + 256 * file[8]) + 1
       /\ (MessagesOf(validation.errors, "x") # {})
             <=> (file[9] + 256 * file[10] < file[5] + 256 * file[6])
       /\ (MessagesOf(validation.errors, "y") # {})
             <=> (file[11] + 256 * file[12] < file[7] + 256 * file[8])

\* xmax is FF FF and xmin is 0: 65536 pixels wide, and no x violation.
C23_Witness ==
    /\ ParseDone
    /\ header # NoHeader
    /\ file[9] = 255 /\ file[10] = 255
    /\ header.xmin = 0
    /\ header.xmax = 65535
    /\ header.width = 65536
    /\ MessagesOf(validation.errors, "x") = {}

(***************************************************************************)
(* Further properties of one open_pcx_file call (checked under SpecViewer).*)
(***************************************************************************)
\* C28: for an accepted header with bits_per_pixel 8 and num_planes 1 and a
\* body for which read_and_decompress_pcx_data returned, every offset
\* y * bytes_per_line + x read in the pixel assembly lies inside the pixel
\* buffer, and the assembly never fails with an out-of-range read.
C28_ReadsInBounds ==
    (/\ parse_pc = "returned"
     /\ read_pc = "returned"
     /\ IsSupportedFormat(parse_result.header)
     /\ QImageDone)
    => /\ \A y \in 0..(parse_result.header.height - 1) :
          \A x \in 0..(parse_result.header.width - 1) :
             y * parse_result.header.bytes_per_line + x < Len(read_result.data)
       /\ qimage_result.kind # "IndexError"
       /\ qimage_pc = "returned"

(***************************************************************************)
(* Properties of the header object (checked under SpecHeaderUse).          *)
(***************************************************************************)
\* C24: once a header is constructed, no call of validate(), __str__,
\* get_colormap_rgb, read_and_decompress_pcx_data, pcx_to_qimage or
\* create_palette_image, in any order and any number of times, changes any
\* of its raw or derived fields; the derived fields stay what __post_init__
\* made of the raw ones.
C24_HeaderNeverModified ==
    /\ [][HeaderBuilt => header' = header]_vars
    /\ [](HeaderBuilt =>
            /\ header.width = header.xmax - header.xmin + 1
            /\ header.height = header.ymax - header.ymin + 1
            /\ header.color_mode = ColorMode(header))

C24_Witness ==
    /\ parse_pc = "returned"
    /\ header.encoding = 1
    /\ use_result.method = "pcx_to_qimage"
    /\ use_result.result.kind = "return"
    /\ header = PCXHeader(Unpack(ReadHeaderBytes(file)))

(***************************************************************************)
(* Properties of RightDockPanel (checked under SpecDock).                  *)
(***************************************************************************)
\* What every state of a dock satisfies: as many buttons as panels, button
\* k holding the index of panel k, the stack showing the panel whose index
\* is current_index, and button k checked exactly when current_index is k.
DockConsistent ==
    /\ Len(buttons) = Len(stack)
    /\ \A k \in 1..Len(buttons) :
          /\ buttons[k].index = k - 1
          /\ sidebar_layout[k] = [item |-> "button", index |-> k - 1]
          /\ buttons[k].checked <=> current_index = k - 1
    /\ current_index # NoIndex =>
          /\ current_index \in 0..(Len(stack) - 1)
          /\ stack_index = current_index
    /\ Cardinality({k \in 1..Len(buttons) : buttons[k].checked}) <= 1

C30_RegularImageOpens ==
    [][/\ (opens' = opens + 1 /\ file_path' # <<>> /\ ~IsPcxPath(file_path')) =>
            /\ image_label' = ScaledFilePixmap(file')
            /\ window_title' =
                  "Simple Image Viewer - {os.path.basename(file_path)}"
            /\ dialog' = dialog
       /\ (opens' = opens + 1 /\ parse_pc' = "start") => IsPcxPath(file_path')
      ]_vars

====
